---- MODULE Spec2Model ----
(***************************************************************************)
(* A model of the session orchestration core of omega-arbiter:             *)
(*   - SessionCoordinator        (src/src/arbiter/coordinator.ts)          *)
(*   - Arbiter session flow      (src/unnamed/part_006)                    *)
(*   - WorktreeManager statuses  (src/unnamed/part_014)                    *)
(*   - MessageQueue              (src/src/queue/messageQueue.ts)           *)
(*                                                                         *)
(* The program runs on the Node.js event loop.  An action of the model is  *)
(* one synchronous segment of code: from the start of a callback (or the   *)
(* resumption after an await) to the next await or return.  The            *)
(* continuation of an await on an already resolved promise is a microtask: *)
(* it runs before any other callback (timer, I/O, signal, setImmediate).   *)
(***************************************************************************)
EXTENDS Integers, Sequences, FiniteSets, TLC

\* ----------------------------------------------------------------- bounds
MaxSessions == 2      \* session ids that may ever be created
MaxActions == 3       \* queueAction calls in one behaviour

SessionIds == 1..MaxSessions
ActionIds == 1..MaxActions
PendingActionType == {"restart", "shutdown", "cleanup"}
CoordinatorState == {"running", "draining", "executing", "stopped"}

VARIABLES
  \* --- SessionCoordinator fields
  state,            \* CoordinatorState
  activeSessions,   \* keys of the activeSessions map
  pendingActions,   \* sequence of [id, type]
  actionIdCounter,
  \* --- event loop around the coordinator
  immediates,       \* setImmediate callbacks scheduled by queueAction (ids of the scheduling action)
  inflight,         \* actions whose executeAction call is awaited by an executePendingActions run
  inCheck,          \* the event loop is inside its setImmediate (check) phase
  callerRunning,    \* the synchronous caller that started the pending microtask has not returned yet
  exited,           \* process.exit was called
  thrown,           \* message of the error thrown by the last registerSession call, "none" if it returned
  \* --- history (not program state)
  started,          \* the actions in the order they began executing
  queuedAt,         \* action id -> the active sessions and the state when queueAction was called
  completed         \* sessions removed from the active set by completeSession

VARIABLES
  \* --- WorktreeManager and the Arbiter's self-edit sessions
  sessions,           \* session id -> WorkSessionStatus ("none": not in the sessions map)
  pc,                 \* session id -> the await at which its startSelfEditSession call stands
  sessionRegistered,  \* sessions whose flow has set sessionRegistered = true
  apiCompleting,      \* sessions with a public Arbiter.completeSession call awaiting the worktree removal
  stopping            \* main's shutdown handler is awaiting arbiter.stop()

progVars == <<sessions, pc, sessionRegistered, apiCompleting, stopping>>

VARIABLES
  \* --- MessageQueue fields
  queue,            \* the queue array: message ids in queue order
  qm,               \* message id -> the QueuedMessage object (priority, status, sessionId, processedAt)
  sessionMessages,  \* session id -> ids of the QueuedMessage objects in that session's list
  processing,       \* the processing flag
  processor,        \* a processor function is set
  loops,            \* startProcessing calls: "off" (not running), or the await the call stands
                    \* at ("sleep", "processor") and the message handed to the processor (0: none)
  qthrown,          \* message of the error thrown by the last enqueue call, "none" if it returned
  \* --- clocks
  msgCounter,       \* enqueue calls so far: message ids are arrival numbers, enqueuedAt order
  doneClock         \* processedAt of the message finished last

queueVars == <<queue, qm, sessionMessages, processing, processor, loops,
               qthrown, msgCounter, doneClock>>

VARIABLES
  \* --- MessageAggregator fields
  channelBuffers,   \* channel id -> the messages of its buffer (id: arrival number,
                    \* timestamp), empty where the map has no buffer
  aggCounter,       \* addMessage calls so far
  aggregated        \* what the last addMessage or forceAggregate call returned

aggVars == <<channelBuffers, aggCounter, aggregated>>

coordVars == <<state, activeSessions, pendingActions, actionIdCounter, immediates,
               inflight, inCheck, callerRunning, exited, thrown, started, queuedAt, completed>>

VARIABLES
  \* --- WorktreeManager and the git repositories it drives
  wmSessions,       \* the sessions map: session id -> the WorkSession object stored under it (0: none)
  wmObj,            \* WorkSession objects by creation number: id, branchName, status, commits,
                    \* pendingMessages (their number), shouldCheckpoint, checkpointCount; call:
                    \* the WorktreeManager call pending on the session
  now,              \* Date.now()
  branches,         \* the branch names that exist in the repository
  dirs,             \* the worktree paths that exist on disk
  mainRepo,         \* the main repository: head, merging, dirty, untracked
  remote,           \* a remote named origin is configured
  lastMerge         \* the last mergeToMain call: result, cause of the failure, restore attempted, pushed

worktreeVars == <<wmSessions, wmObj, now, branches, dirs, mainRepo,
                  remote, lastMerge>>

VARIABLES
  \* --- the generation runs of the Arbiter's self-edit sessions
  runs,             \* object number -> the run of its session: pc, checkpointAborted, aborts
                    \* (runner.abort() calls in the run), made (checkpoint commits of the run),
                    \* received (follow-up messages so far), prompt (the follow-up messages
                    \* in the prompt of the run, numbered in order of arrival), merges
                    \* (mergeToMain calls), repairs (conflict repair runs), outcome (how
                    \* the session ended), coord (what coordinator.completeSession was
                    \* told), restart (requestRestart was called)
  checkpoints,      \* object number -> the numbers in the messages of the checkpoint
                    \* commits on its branch, in commit order
  runner            \* object number -> the ClaudeRunner of the run and its subprocess:
                    \* proc, aborted, killed (process.killed), timer (the 5 s timeout
                    \* of abort is pending), sigkill (SIGKILL was sent), tool (a tool_use
                    \* was emitted and its tool_result not yet), waiting (the events
                    \* whose onOutput callback awaits handleEvent)

runVars == <<runs, checkpoints, runner>>

\* what the actions of one component leave alone
outsideQueue == <<coordVars, progVars, aggVars, worktreeVars, runVars>>
outsideProgram == <<queueVars, aggVars, worktreeVars, runVars>>

\* The coordinator (and its history) as one value, so that the synchronous
\* methods compose as functions.
Coord ==
  [state |-> state, activeSessions |-> activeSessions, pendingActions |-> pendingActions,
   actionIdCounter |-> actionIdCounter, immediates |-> immediates, inflight |-> inflight,
   thrown |-> thrown, started |-> started, queuedAt |-> queuedAt, completed |-> completed]

SetCoord(c) ==
  /\ state' = c.state
  /\ activeSessions' = c.activeSessions
  /\ pendingActions' = c.pendingActions
  /\ actionIdCounter' = c.actionIdCounter
  /\ immediates' = c.immediates
  /\ inflight' = c.inflight
  /\ thrown' = c.thrown
  /\ started' = c.started
  /\ queuedAt' = c.queuedAt
  /\ completed' = c.completed

NotQueued == [active |-> {}, state |-> "none", busy |-> FALSE]

InitCoord ==
  /\ state = "running"
  /\ activeSessions = {}
  /\ pendingActions = <<>>
  /\ actionIdCounter = 0
  /\ immediates = <<>>
  /\ inflight = {}
  /\ inCheck = FALSE
  /\ callerRunning = FALSE
  /\ exited = FALSE
  /\ thrown = "none"
  /\ started = <<>>
  /\ queuedAt = [a \in ActionIds |-> NotQueued]
  /\ completed = {}

\* ------------------------------------------------ SessionCoordinator methods

setState(c, newState) == [c EXCEPT !.state = newState]

\* (variant: also accepts sessions while draining)
canStartSessionLax(c) == c.state # "executing"

canStartSession(c) == c.state = "running"

NotAccepting == "Not accepting new sessions"

registerSession(c, s) ==
  IF ~canStartSession(c)
  THEN [c EXCEPT !.thrown = NotAccepting]
  ELSE [c EXCEPT !.activeSessions = @ \cup {s}, !.thrown = "none"]

\* The action an executePendingActions run takes from the queue.
shiftAction(pa) == Head(pa)

\* (variant: the loop's exit leaves the state as it is)
executeLoopNoReset(c) ==
  IF Len(c.pendingActions) > 0
  THEN LET action == shiftAction(c.pendingActions) IN
       [c EXCEPT !.pendingActions = SelectSeq(@, LAMBDA x : x # action),
                 !.inflight = @ \cup {action},
                 !.started = Append(@, action)]
  ELSE c

\* One turn of the while loop of executePendingActions, up to the await of
\* executeAction; the loop's exit sets the state back to running.
executeLoop(c) ==
  IF Len(c.pendingActions) > 0
  THEN LET action == shiftAction(c.pendingActions) IN
       [c EXCEPT !.pendingActions = SelectSeq(@, LAMBDA x : x # action),
                 !.inflight = @ \cup {action},
                 !.started = Append(@, action)]
  ELSE setState(c, "running")

\* executePendingActions up to its first await.
executePendingActions(c) ==
  IF Len(c.pendingActions) = 0
  THEN setState(c, "running")
  ELSE executeLoop(setState(c, "executing"))

\* (variant: does not look at the remaining count)
allDrainedAnyCount(c, remaining) == c.state = "draining"

\* The test of completeSession that starts the pending actions.
allDrained(c, remaining) == remaining = 0 /\ c.state = "draining"

completeSession(c, s) ==
  IF s \notin c.activeSessions
  THEN c
  ELSE LET d == [c EXCEPT !.activeSessions = @ \ {s}, !.completed = @ \cup {s}]
           remaining == Cardinality(d.activeSessions)
       IN IF allDrained(d, remaining) THEN executePendingActions(d) ELSE d

\* (variant: unshift instead of push)
pushActionFront(pa, action) == <<action>> \o pa

\* Where queueAction puts the new action in the pending list.
pushAction(pa, action) == Append(pa, action)

\* The test of queueAction that schedules executePendingActions.
executeImmediately(n) == n = 0

\* (variant: calls executePendingActions directly instead of through setImmediate)
queueActionSync(c, type) ==
  LET action == [id |-> c.actionIdCounter + 1, type |-> type]
      n == Cardinality(c.activeSessions)
      d == [c EXCEPT !.actionIdCounter = @ + 1,
                     !.pendingActions = pushAction(@, action),
                     !.queuedAt = [@ EXCEPT ![action.id] =
                         [active |-> c.activeSessions, state |-> c.state,
                          busy |-> c.inflight # {}]]]
      e == IF d.state = "running" THEN setState(d, "draining") ELSE d
  IN IF executeImmediately(n) THEN executePendingActions(e) ELSE e

queueAction(c, type) ==
  LET action == [id |-> c.actionIdCounter + 1, type |-> type]
      n == Cardinality(c.activeSessions)
      d == [c EXCEPT !.actionIdCounter = @ + 1,
                     !.pendingActions = pushAction(@, action),
                     !.queuedAt = [@ EXCEPT ![action.id] =
                         [active |-> c.activeSessions, state |-> c.state,
                          busy |-> c.inflight # {}]]]
      e == IF d.state = "running" THEN setState(d, "draining") ELSE d
  IN IF executeImmediately(n)
     THEN [e EXCEPT !.immediates = Append(@, action.id)]
     ELSE e

requestRestart(c) == queueAction(c, "restart")
requestShutdown(c) == queueAction(c, "shutdown")

\* (variant: no duplicate check)
handleSignalAlways(c) == requestShutdown(c)

\* handleSignal of setupSignalHandlers.
handleSignal(c) ==
  IF c.state = "draining" \/ c.state = "executing" THEN c ELSE requestShutdown(c)

\* ------------------------------------------------------------- event loop

\* Continuations waiting in the microtask queue: executeAction('cleanup')
\* returns without awaiting anything, so its await resumes as a microtask.
microtasks(fl) == {a \in fl : a.type = "cleanup"}

\* A new callback (timer, I/O, signal) may start.
MacrotaskOK == ~exited /\ ~inCheck /\ microtasks(inflight) = {}

\* A call into the coordinator may happen: from a new callback, or from the
\* synchronous code that is still running after an earlier call.
CallOK == ~exited /\ ~inCheck /\ (microtasks(inflight) = {} \/ callerRunning)

AfterCall(c) ==
  /\ SetCoord(c)
  /\ callerRunning' = (microtasks(c.inflight) # {})
  /\ UNCHANGED <<inCheck, exited>>

\* The step touches the coordinator only.
OnlyCoord == UNCHANGED <<progVars, queueVars, aggVars, worktreeVars, runVars>>

\* ------------------------------------------- coordinator driven by its API

RegisterSession(s) ==
  /\ CallOK
  /\ s \notin activeSessions \cup completed
  /\ AfterCall(registerSession(Coord, s))
  /\ OnlyCoord

CompleteSession(s) ==
  /\ CallOK
  /\ AfterCall(completeSession(Coord, s))
  /\ OnlyCoord

QueueAction(type) ==
  /\ CallOK
  /\ actionIdCounter < MaxActions
  /\ AfterCall(queueAction(Coord, type))
  /\ OnlyCoord

Signal ==
  /\ MacrotaskOK
  /\ actionIdCounter < MaxActions
  /\ AfterCall(handleSignal(Coord))
  /\ OnlyCoord

\* A setImmediate callback of queueAction runs executePendingActions.  The
\* callbacks scheduled before the check phase began run one after the other,
\* with only microtasks in between.
ImmediateTick ==
  /\ ~exited
  /\ microtasks(inflight) = {}
  /\ Len(immediates) > 0
  /\ SetCoord(executePendingActions([Coord EXCEPT !.immediates = Tail(@)]))
  /\ inCheck' = (Len(immediates) > 1)
  /\ callerRunning' = FALSE
  /\ UNCHANGED exited
  /\ OnlyCoord

\* executeAction('cleanup') has returned: action:completed, next loop turn.
CleanupResume(a) ==
  /\ ~exited
  /\ a \in microtasks(inflight)
  /\ SetCoord(executeLoop([Coord EXCEPT !.inflight = @ \ {a}]))
  /\ callerRunning' = FALSE
  /\ UNCHANGED <<inCheck, exited>>
  /\ OnlyCoord

\* sleep(1000) of executeAction('restart' | 'shutdown') is over: process.exit(0).
SleepDone(a) ==
  /\ MacrotaskOK
  /\ a \in inflight
  /\ a.type \in {"restart", "shutdown"}
  /\ exited' = TRUE
  /\ UNCHANGED <<state, activeSessions, pendingActions, actionIdCounter, immediates,
                 inflight, inCheck, callerRunning, thrown, started, queuedAt, completed>>
  /\ OnlyCoord

CoordNext ==
  \/ \E s \in SessionIds : RegisterSession(s)
  \/ \E s \in SessionIds : CompleteSession(s)
  \/ \E t \in PendingActionType : QueueAction(t)
  \/ Signal
  \/ ImmediateTick
  \/ \E a \in inflight : CleanupResume(a)
  \/ \E a \in inflight : SleepDone(a)

\* bounds of the queue model
MaxQueueSize == 2     \* options.maxQueueSize
MaxMessages == 3      \* enqueue calls in one behaviour

MsgIds == 1..MaxMessages
LoopIds == 1..MaxMessages     \* every call that starts a loop is an enqueue call
NoLoop == [pc |-> "off", item |-> 0]
QueueSessionIds == {1}
ListSessionIds == {1, 2}      \* the session ids that messages are associated with
MessagePriority == {"low", "normal", "high", "urgent"}
NoMessage == [priority |-> "none", status |-> "none", sessionId |-> 0, processedAt |-> 0]

InitQueue ==
  /\ queue = <<>>
  /\ qm = [m \in MsgIds |-> NoMessage]
  /\ sessionMessages = [s \in ListSessionIds |-> <<>>]
  /\ processing = FALSE
  /\ processor = FALSE
  /\ loops = [l \in LoopIds |-> NoLoop]
  /\ qthrown = "none"
  /\ msgCounter = 0
  /\ doneClock = 0

InitProg ==
  /\ sessions = [s \in SessionIds |-> "none"]
  /\ pc = [s \in SessionIds |-> "idle"]
  /\ sessionRegistered = {}
  /\ apiCompleting = {}
  /\ stopping = FALSE

vars == <<coordVars, progVars, queueVars, aggVars, worktreeVars, runVars>>

\* bounds of the WorktreeManager model
MaxCreates == 2       \* createSession calls in one behaviour
MaxCommits == 2       \* commit identifiers recorded in one behaviour
MaxFollowUps == 2     \* follow-up messages to one session

ObjIds == 1..MaxCreates
ClockValues == {1, 2}                 \* Date.now() readings
RandomValues == 1..MaxCreates         \* Math.random().toString(36).slice(2, 8)
Slugs == 1..MaxCreates                \* the slugs that task descriptions reduce to
ChannelIds == 1..MaxCreates           \* message.channelId
WtSessionIds == ClockValues \X RandomValues   \* sess-<timestamp>-<random>
BranchNames == Slugs \X ClockValues           \* arbiter/<slug>-<timestamp>
NoSession ==
  [id |-> <<0, 0>>, branchName |-> <<0, 0>>, channelId |-> 0, status |-> "none",
   commits |-> <<>>, pendingMessages |-> 0, shouldCheckpoint |-> FALSE, checkpointCount |-> 0, call |-> "none"]
NoRun ==
  [pc |-> "idle", checkpointAborted |-> FALSE, aborts |-> 0, made |-> 0, received |-> 0,
   prompt |-> {}, merges |-> 0, repairs |-> 0, outcome |-> "none", coord |-> "none",
   restart |-> FALSE]
NoMerge == [result |-> "none", cause |-> "none", restored |-> FALSE, pushed |-> FALSE]
CleanMain == [head |-> "default", merging |-> FALSE, dirty |-> FALSE, untracked |-> FALSE]

InitWorktree ==
  /\ wmSessions = [i \in WtSessionIds |-> 0]
  /\ wmObj = [o \in ObjIds |-> NoSession]
  /\ now = 1
  /\ branches = {}
  /\ dirs = {}
  /\ mainRepo = CleanMain
  /\ remote = FALSE
  /\ lastMerge = NoMerge

NoRunner ==
  [proc |-> "none", aborted |-> FALSE, killed |-> FALSE, timer |-> FALSE,
   sigkill |-> FALSE, tool |-> FALSE, waiting |-> {}]

InitRuns ==
  /\ runs = [o \in ObjIds |-> NoRun]
  /\ checkpoints = [o \in ObjIds |-> <<>>]
  /\ runner = [o \in ObjIds |-> NoRunner]

AggChannelIds == {1, 2}               \* channel ids of aggregated messages
NoAggregate == [op |-> "none", messages |-> <<>>]

InitAgg ==
  /\ channelBuffers = [ch \in AggChannelIds |-> <<>>]
  /\ aggCounter = 0
  /\ aggregated = NoAggregate

Init == InitCoord /\ InitProg /\ InitQueue /\ InitWorktree /\ InitRuns /\ InitAgg

CoordSpec == Init /\ [][CoordNext]_vars

\* The coordinator on Node's event loop: a scheduled setImmediate callback is
\* run, and so is the continuation of a settled await.
DrainSpec ==
  /\ Init /\ [][CoordNext]_vars
  /\ WF_vars(ImmediateTick)
  /\ WF_vars(\E a \in inflight : CleanupResume(a))


\* ------------------------------------- the program: Arbiter + WorktreeManager

WorkSessionStatus ==
  {"creating", "active", "committing", "rebasing", "completed", "failed", "abandoned"}

setStatus(ss, s, st) == [ss EXCEPT ![s] = st]
goto(s, label) == pc' = [pc EXCEPT ![s] = label]

\* Session ids are handed out in order (generateSessionId).
NextSessionId(s) == pc[s] = "idle" /\ \A r \in SessionIds : r < s => pc[r] # "idle"

\* startSelfEditSession up to its first await: the canStartSession check, then
\* the synchronous head of createSession (the session enters the map as
\* 'creating') and the await of its first git command.
StartSelfEditSession(s) ==
  /\ MacrotaskOK
  /\ NextSessionId(s)
  /\ IF ~canStartSession(Coord)
     THEN /\ goto(s, "refused")
          /\ UNCHANGED sessions
     ELSE /\ goto(s, "creating")
          /\ sessions' = setStatus(sessions, s, "creating")
  /\ UNCHANGED <<coordVars, sessionRegistered, apiCompleting, stopping>>
  /\ UNCHANGED outsideProgram

\* What decides the git commands of one createSession call: fetch origin, branch
\* from origin/<default>, branch from <default> (run only when the first branch
\* command failed), worktree add, and the node_modules symlink.  A command the
\* call does not reach has one outcome here.
GitCreateEnv ==
  [fetch : BOOLEAN, origin : {TRUE}, local : {TRUE}, add : {TRUE}, symlink : BOOLEAN]
  \cup [fetch : BOOLEAN, origin : {TRUE}, local : {TRUE}, add : {FALSE}, symlink : {TRUE}]
  \cup [fetch : BOOLEAN, origin : {FALSE}, local : {TRUE}, add : {TRUE}, symlink : BOOLEAN]
  \cup [fetch : BOOLEAN, origin : {FALSE}, local : {TRUE}, add : {FALSE}, symlink : {TRUE}]
  \cup [fetch : BOOLEAN, origin : {FALSE}, local : {FALSE}, add : {TRUE}, symlink : {TRUE}]

\* The branch exists after the two attempts: the second runs in the catch of
\* the first.  The fetch has its own try/catch and decides nothing.
branchCreatedRemoteOnly(e) == e.origin
branchCreated(e) == e.origin \/ e.local

\* createSession reaches `session.status = 'active'`: the branch was created
\* and worktree add ran; the symlink has its own try/catch.
createSucceeds(e) == branchCreated(e) /\ e.add

\* createSession settles.  On success its continuation in startSelfEditSession
\* calls registerSession; a throw of registerSession lands in the catch block
\* with the session set, a throw of createSession with `session` still null:
\* only the failure message is sent.
CreateSessionDone(s, e) ==
  /\ MacrotaskOK
  /\ pc[s] = "creating"
  /\ IF createSucceeds(e)
     THEN LET c == registerSession(Coord, s) IN
          /\ sessions' = setStatus(sessions, s, "active")
          /\ AfterCall(c)
          /\ IF c.thrown = "none"
             THEN goto(s, "generating") /\ sessionRegistered' = sessionRegistered \cup {s}
             ELSE goto(s, "catch") /\ UNCHANGED sessionRegistered
     ELSE /\ sessions' = setStatus(sessions, s, "failed")
          /\ goto(s, "done")
          /\ UNCHANGED <<coordVars, sessionRegistered>>
  /\ UNCHANGED <<apiCompleting, stopping>>
  /\ UNCHANGED outsideProgram

GeneratorResult == {"success", "failed", "checkpoint", "error"}

\* The generator run (initial or continuation) is over.  success: commitChanges
\* starts; checkpoint: createCheckpoint starts its commitChanges; failed: the
\* failure summary is finalized; error: something threw.
GeneratorDone(s, r) ==
  /\ MacrotaskOK
  /\ pc[s] = "generating"
  /\ CASE r = "success" -> goto(s, "committing") /\ sessions' = setStatus(sessions, s, "committing")
       [] r = "checkpoint" -> goto(s, "checkpoint") /\ sessions' = setStatus(sessions, s, "committing")
       [] r = "failed" -> goto(s, "finalFailed") /\ UNCHANGED sessions
       [] r = "error" -> goto(s, "catch") /\ UNCHANGED sessions
  /\ UNCHANGED <<coordVars, sessionRegistered, apiCompleting, stopping>>
  /\ UNCHANGED outsideProgram

\* commitChanges of a checkpoint settles; the continuation run starts.
CheckpointDone(s) ==
  /\ MacrotaskOK
  /\ pc[s] = "checkpoint"
  /\ sessions' = setStatus(sessions, s, "active")
  /\ goto(s, "generating")
  /\ UNCHANGED <<coordVars, sessionRegistered, apiCompleting, stopping>>
  /\ UNCHANGED outsideProgram

CommitResult == {"hash", "none", "throw"}

\* commitChanges of the final commit settles: every exit sets 'active'.
CommitDone(s, r) ==
  /\ MacrotaskOK
  /\ pc[s] = "committing"
  /\ sessions' = setStatus(sessions, s, "active")
  /\ CASE r = "hash" -> goto(s, "mergeFlush")
       [] r = "none" -> goto(s, "finalNoChanges")
       [] r = "throw" -> goto(s, "catch")
  /\ UNCHANGED <<coordVars, sessionRegistered, apiCompleting, stopping>>
  /\ UNCHANGED outsideProgram

\* The flush after 'Merging to main...' has settled: mergeToMain runs up to
\* its first git command in the main repository.
MergeStart(s) ==
  /\ MacrotaskOK
  /\ pc[s] = "mergeFlush"
  /\ goto(s, "merging")
  /\ UNCHANGED <<coordVars, sessions, sessionRegistered, apiCompleting, stopping>>
  /\ UNCHANGED outsideProgram

\* A mergeToMain call settles.  Every failure on a known session carries a
\* conflictType: after the first call the repair run follows, after the retry
\* the failure summary.
MergeDone(s, ok) ==
  /\ MacrotaskOK
  /\ pc[s] \in {"merging", "retrying"}
  /\ goto(s, IF ok THEN "finalMerged"
             ELSE IF pc[s] = "merging" THEN "repairing" ELSE "finalMergeFailed")
  /\ UNCHANGED <<coordVars, sessions, sessionRegistered, apiCompleting, stopping>>
  /\ UNCHANGED outsideProgram

\* resolveConflictsWithClaude settles (it catches its own errors); when it
\* reports success the flush after 'Retrying merge...' settles too and
\* mergeToMain runs again up to its first git command.
RepairDone(s, resolved) ==
  /\ MacrotaskOK
  /\ pc[s] = "repairing"
  /\ goto(s, IF resolved THEN "retrying" ELSE "finalMergeFailed")
  /\ UNCHANGED <<coordVars, sessions, sessionRegistered, apiCompleting, stopping>>
  /\ UNCHANGED outsideProgram

Finals == {"finalMerged", "finalMergeFailed", "finalNoChanges", "finalFailed"}

\* (variant: only a merged session is reported to the coordinator)
finishMergedOnly(c, s, merged) ==
  IF merged THEN requestRestart(completeSession(c, s)) ELSE c

\* What the flow tells the coordinator once outputStream.finalize has settled.
finishWithCoordinator(c, s, merged) ==
  IF merged THEN requestRestart(completeSession(c, s)) ELSE completeSession(c, s)

\* outputStream.finalize has settled: coordinator.completeSession (and
\* requestRestart after a merge), then worktreeManager.completeSession starts.
FinalizeDone(s) ==
  /\ MacrotaskOK
  /\ pc[s] \in Finals
  /\ pc[s] = "finalMerged" => actionIdCounter < MaxActions
  /\ AfterCall(finishWithCoordinator(Coord, s, pc[s] = "finalMerged"))
  /\ goto(s, "cleaning")
  /\ UNCHANGED <<sessions, sessionRegistered, apiCompleting, stopping>>
  /\ UNCHANGED outsideProgram

\* WorktreeManager.completeSession settles (git removal or its fallback).
WorktreeCompleteDone(s) ==
  /\ MacrotaskOK
  /\ pc[s] = "cleaning"
  /\ sessions' = setStatus(sessions, s, "completed")
  /\ goto(s, "done")
  /\ UNCHANGED <<coordVars, sessionRegistered, apiCompleting, stopping>>
  /\ UNCHANGED outsideProgram

\* The catch block after its message was sent: completeSession if the session
\* was registered, then abandonSession starts.
CatchDone(s) ==
  /\ MacrotaskOK
  /\ pc[s] = "catch"
  /\ AfterCall(IF s \in sessionRegistered THEN completeSession(Coord, s) ELSE Coord)
  /\ goto(s, "abandoning")
  /\ UNCHANGED <<sessions, sessionRegistered, apiCompleting, stopping>>
  /\ UNCHANGED outsideProgram

\* WorktreeManager.abandonSession settles.
AbandonDone(s) ==
  /\ MacrotaskOK
  /\ pc[s] = "abandoning"
  /\ sessions' = setStatus(sessions, s, "abandoned")
  /\ goto(s, "done")
  /\ UNCHANGED <<coordVars, sessionRegistered, apiCompleting, stopping>>
  /\ UNCHANGED outsideProgram

\* The public Arbiter.completeSession: getSession finds the session, then
\* WorktreeManager.completeSession is awaited.
ArbiterCompleteSession(s) ==
  /\ MacrotaskOK
  /\ sessions[s] # "none"
  /\ s \notin apiCompleting
  /\ apiCompleting' = apiCompleting \cup {s}
  /\ UNCHANGED <<coordVars, sessions, pc, sessionRegistered, stopping>>
  /\ UNCHANGED outsideProgram

ArbiterCompleteDone(s) ==
  /\ MacrotaskOK
  /\ s \in apiCompleting
  /\ apiCompleting' = apiCompleting \ {s}
  /\ sessions' = setStatus(sessions, s, "completed")
  /\ UNCHANGED <<coordVars, pc, sessionRegistered, stopping>>
  /\ UNCHANGED outsideProgram

\* SIGINT / SIGTERM: the coordinator's handler (installed by arbiter.start)
\* and main's shutdown handler (installed after it) both run.
ProcessSignal ==
  /\ MacrotaskOK
  /\ actionIdCounter < MaxActions
  /\ AfterCall(handleSignal(Coord))
  /\ stopping' = TRUE
  /\ UNCHANGED <<sessions, pc, sessionRegistered, apiCompleting>>
  /\ UNCHANGED outsideProgram

\* main's shutdown: arbiter.stop() has settled, process.exit(0).
MainExit ==
  /\ MacrotaskOK
  /\ stopping
  /\ exited' = TRUE
  /\ UNCHANGED <<state, activeSessions, pendingActions, actionIdCounter, immediates,
                 inflight, inCheck, callerRunning, thrown, started, queuedAt, completed>>
  /\ UNCHANGED progVars
  /\ UNCHANGED outsideProgram

Next ==
  \/ \E s \in SessionIds : StartSelfEditSession(s)
  \/ \E s \in SessionIds, e \in GitCreateEnv : CreateSessionDone(s, e)
  \/ \E s \in SessionIds, r \in GeneratorResult : GeneratorDone(s, r)
  \/ \E s \in SessionIds : CheckpointDone(s)
  \/ \E s \in SessionIds, r \in CommitResult : CommitDone(s, r)
  \/ \E s \in SessionIds : MergeStart(s)
  \/ \E s \in SessionIds, ok \in BOOLEAN : MergeDone(s, ok)
  \/ \E s \in SessionIds, resolved \in BOOLEAN : RepairDone(s, resolved)
  \/ \E s \in SessionIds : FinalizeDone(s)
  \/ \E s \in SessionIds : WorktreeCompleteDone(s)
  \/ \E s \in SessionIds : CatchDone(s)
  \/ \E s \in SessionIds : AbandonDone(s)
  \/ \E s \in SessionIds : ArbiterCompleteSession(s)
  \/ \E s \in SessionIds : ArbiterCompleteDone(s)
  \/ ProcessSignal
  \/ MainExit
  \/ ImmediateTick
  \/ \E a \in inflight : SleepDone(a)

Spec == Init /\ [][Next]_vars

\* The start of sessions alone: the flow up to the generator run, the catch
\* block a throwing registerSession leads to, and the signal handlers.
StartNext ==
  \/ \E s \in SessionIds : StartSelfEditSession(s)
  \/ \E s \in SessionIds, e \in GitCreateEnv : CreateSessionDone(s, e)
  \/ \E s \in SessionIds : CatchDone(s)
  \/ \E s \in SessionIds : AbandonDone(s)
  \/ ProcessSignal
  \/ MainExit
  \/ ImmediateTick
  \/ \E a \in inflight : SleepDone(a)

StartSpec == Init /\ [][StartNext]_vars

\* The session flows alone: no signal arrives and no public method is called.
FlowStep(s) ==
  \/ \E e \in GitCreateEnv : CreateSessionDone(s, e)
  \/ \E r \in GeneratorResult : GeneratorDone(s, r)
  \/ CheckpointDone(s)
  \/ \E r \in CommitResult : CommitDone(s, r)
  \/ MergeStart(s)
  \/ \E ok \in BOOLEAN : MergeDone(s, ok)
  \/ \E resolved \in BOOLEAN : RepairDone(s, resolved)
  \/ FinalizeDone(s)
  \/ WorktreeCompleteDone(s)
  \/ CatchDone(s)
  \/ AbandonDone(s)

FlowNext ==
  \/ \E s \in SessionIds : StartSelfEditSession(s)
  \/ \E s \in SessionIds : FlowStep(s)
  \/ ImmediateTick
  \/ \E a \in inflight : SleepDone(a)

\* Every awaited operation of a flow settles (generator runs and git commands
\* terminate, the output stream returns), a run that is not aborted for a
\* checkpoint comes (the follow-up messages are finitely many), and the event
\* loop runs its setImmediate callbacks and timers.
FlowSpec ==
  /\ Init /\ [][FlowNext]_vars
  /\ \A s \in SessionIds : WF_vars(FlowStep(s))
  /\ \A s \in SessionIds :
       SF_vars(\E r \in GeneratorResult \ {"checkpoint"} : GeneratorDone(s, r))
  /\ WF_vars(ImmediateTick)
  /\ WF_vars(\E a \in inflight : SleepDone(a))


\* ------------------------------------------------------------- MessageQueue

priorityOrder == <<"urgent", "high", "normal", "low">>
indexOf(priority) == CHOOSE i \in 1..4 : priorityOrder[i] = priority

Min(S) == CHOOSE x \in S : \A y \in S : x <= y
Max(S) == CHOOSE x \in S : \A y \in S : x >= y

\* Array.splice(i, 1) and Array.splice(i, 0, x), positions counted from 1.
spliceOut(q, i) == SubSeq(q, 1, i - 1) \o SubSeq(q, i + 1, Len(q))
spliceIn(q, i, x) == SubSeq(q, 1, i - 1) \o <<x>> \o SubSeq(q, i, Len(q))

\* (variant: with no low-priority item, falls back to the head of the queue)
lowPriorityIndexOrHead(q, m) ==
  LET lows == {i \in 1..Len(q) : m[q[i]].priority = "low"} IN
  IF lows = {} THEN (IF Len(q) > 0 THEN 1 ELSE 0) ELSE Min(lows)

\* (variant: findLastIndex)
lowPriorityIndexLast(q, m) ==
  LET lows == {i \in 1..Len(q) : m[q[i]].priority = "low"} IN
  IF lows = {} THEN 0 ELSE Max(lows)

\* queue.findIndex(m => m.priority === 'low'); 0 stands for -1.
lowPriorityIndex(q, m) ==
  LET lows == {i \in 1..Len(q) : m[q[i]].priority = "low"} IN
  IF lows = {} THEN 0 ELSE Min(lows)

\* (variant: >= in place of >)
findInsertIndexBeforeEqual(q, m, priority) ==
  LET later == {i \in 1..Len(q) : indexOf(m[q[i]].priority) >= indexOf(priority)} IN
  IF later = {} THEN Len(q) + 1 ELSE Min(later)

findInsertIndex(q, m, priority) ==
  LET later == {i \in 1..Len(q) : indexOf(m[q[i]].priority) > indexOf(priority)} IN
  IF later = {} THEN Len(q) + 1 ELSE Min(later)

QueueFull == "Queue is full"

\* qm holds the fields of a QueuedMessage while it is in the queue array or
\* held by the running loop; a session list holds the ids of its messages.
\* Of a message that was spliced or filtered out of the array, only the
\* sessionId is kept, and only while a session list holds the message: its
\* other fields are read by no operation modelled here (enqueue, the loop,
\* cleanup, associateWithSession).
referenced(id, q, sm, held) ==
  \/ \E i \in 1..Len(q) : q[i] = id
  \/ id \in held

listed(id, sm) == \E s \in DOMAIN sm : \E i \in 1..Len(sm[s]) : sm[s][i] = id

dropGarbage(m, q, sm, held) ==
  [id \in MsgIds |-> IF referenced(id, q, sm, held) THEN m[id]
                     ELSE IF listed(id, sm) THEN [NoMessage EXCEPT !.sessionId = m[id].sessionId]
                     ELSE NoMessage]

\* The messages the running loops hold, and the slot of the next loop.
heldItems(ls) == {ls[l].item : l \in LoopIds} \ {0}
freeLoop(ls) == Min({l \in LoopIds : ls[l].pc = "off"})

\* queue.find(m => m.status === 'queued'); 0 stands for undefined.
nextQueued(q, m) ==
  LET waiting == {i \in 1..Len(q) : m[q[i]].status = "queued"} IN
  IF waiting = {} THEN 0 ELSE q[Min(waiting)]

\* enqueue(message, {sessionId, priority}); sessionId 0: no session given.
\* A full queue without a low-priority item throws before anything is
\* changed.  The call ends by starting the processing loop when none runs:
\* startProcessing then runs up to its await of the processor.
Enqueue(priority, sessionId) ==
  /\ msgCounter < MaxMessages
  /\ LET id == msgCounter + 1
         full == Len(queue) >= MaxQueueSize
         low == lowPriorityIndex(queue, qm)
     IN IF full /\ low = 0
        THEN /\ qthrown' = QueueFull
             /\ UNCHANGED <<queue, qm, sessionMessages, processing, loops, msgCounter>>
        ELSE LET q1 == IF full THEN spliceOut(queue, low) ELSE queue
                 m1 == [qm EXCEPT ![id] = [priority |-> priority, status |-> "queued",
                                           sessionId |-> sessionId, processedAt |-> 0]]
                 q2 == spliceIn(q1, findInsertIndex(q1, m1, priority), id)
                 sm == IF sessionId # 0
                       THEN [sessionMessages EXCEPT ![sessionId] = Append(@, id)]
                       ELSE sessionMessages
                 start == ~processing /\ processor
                 next == nextQueued(q2, m1)
                 ls == [loops EXCEPT ![freeLoop(loops)] = [pc |-> "processor", item |-> next]]
             IN /\ msgCounter' = id
                /\ qthrown' = "none"
                /\ queue' = q2
                /\ sessionMessages' = sm
                /\ IF start
                   THEN /\ processing' = TRUE
                        /\ loops' = ls
                        /\ qm' = dropGarbage([m1 EXCEPT ![next].status = "processing"],
                                              q2, sm, heldItems(ls))
                   ELSE /\ qm' = dropGarbage(m1, q2, sm, heldItems(loops))
                        /\ UNCHANGED <<processing, loops>>
  /\ UNCHANGED <<processor, doneClock, outsideQueue>>

SetProcessor ==
  /\ ~processor
  /\ processor' = TRUE
  /\ UNCHANGED <<queue, qm, sessionMessages, processing, loops, qthrown,
                 msgCounter, doneClock, outsideQueue>>

\* A loop's sleep(processDelay) is over: the while test, then the next queued
\* message, if any, goes to the processor.
LoopWake(l) ==
  /\ loops[l].pc = "sleep"
  /\ IF ~processing
     THEN loops' = [loops EXCEPT ![l] = NoLoop] /\ UNCHANGED qm
     ELSE LET next == nextQueued(queue, qm) IN
          IF next = 0
          THEN UNCHANGED <<qm, loops>>
          ELSE /\ qm' = [qm EXCEPT ![next].status = "processing"]
               /\ loops' = [loops EXCEPT ![l] = [pc |-> "processor", item |-> next]]
  /\ UNCHANGED <<queue, sessionMessages, processing, processor, qthrown, msgCounter,
                 doneClock, outsideQueue>>

\* The processor call of a loop settles: completed, or failed when it threw.
ProcessorDone(l, ok) ==
  /\ loops[l].pc = "processor"
  /\ doneClock' = doneClock + 1
  /\ loops' = [loops EXCEPT ![l] = [pc |-> "sleep", item |-> 0]]
  /\ qm' = dropGarbage([qm EXCEPT ![loops[l].item].status = IF ok THEN "completed" ELSE "failed",
                                  ![loops[l].item].processedAt = doneClock + 1],
                      queue, sessionMessages, heldItems(loops'))
  /\ UNCHANGED <<queue, sessionMessages, processing, processor, qthrown, msgCounter,
                 outsideQueue>>

\* cleanup(maxAgeMs), cutoff = Date.now() - maxAgeMs on the processedAt scale:
\* completed and failed messages processed at or before the cutoff are dropped.
cleanupKeeps(x, cutoff) ==
  IF x.status = "completed" \/ x.status = "failed" THEN x.processedAt > cutoff ELSE TRUE

Cleanup(cutoff) ==
  /\ queue' = SelectSeq(queue, LAMBDA id : cleanupKeeps(qm[id], cutoff))
  /\ queue' # queue
  /\ qm' = dropGarbage(qm, queue', sessionMessages, heldItems(loops))
  /\ UNCHANGED <<sessionMessages, processing, processor, loops, qthrown,
                 msgCounter, doneClock, outsideQueue>>

\* stop(): clears the processing flag; a loop sees it at its next while test.
Stop ==
  /\ processing
  /\ processing' = FALSE
  /\ UNCHANGED <<queue, qm, sessionMessages, processor, loops, qthrown,
                 msgCounter, doneClock, outsideQueue>>

QueueNext ==
  \/ \E p \in MessagePriority, s \in QueueSessionIds \cup {0} : Enqueue(p, s)
  \/ SetProcessor
  \/ \E l \in LoopIds : LoopWake(l)
  \/ \E l \in LoopIds, ok \in BOOLEAN : ProcessorDone(l, ok)
  \/ \E cutoff \in 1..doneClock : Cleanup(cutoff)

\* The queue driven by enqueue, setProcessor and cleanup calls (stop is not called).
QueueSpec == Init /\ [][QueueNext]_vars

\* associateWithSession(messageId, sessionId): queue.find looks in the queue
\* array only; a message found is tagged and pushed onto the session's list.
\* The lists only grow, and the calls are counted off by their lengths.
AssociateWithSession(messageId, sessionId) ==
  /\ Len(sessionMessages[sessionId]) < MaxMessages
  /\ IF \E i \in 1..Len(queue) : queue[i] = messageId
     THEN /\ qm' = [qm EXCEPT ![messageId].sessionId = sessionId]
          /\ sessionMessages' = [sessionMessages EXCEPT ![sessionId] = Append(@, messageId)]
     ELSE UNCHANGED <<qm, sessionMessages>>
  /\ UNCHANGED <<queue, processing, processor, loops, qthrown, msgCounter, doneClock,
                 outsideQueue>>

\* The queue with session association: messages of two priorities, enqueued
\* with or without a session id, and associateWithSession calls.
SessionListNext ==
  \/ \E p \in {"low", "normal"}, s \in ListSessionIds \cup {0} : Enqueue(p, s)
  \/ \E m \in MsgIds, s \in ListSessionIds : AssociateWithSession(m, s)
  \/ SetProcessor
  \/ \E l \in LoopIds : LoopWake(l)
  \/ \E l \in LoopIds, ok \in BOOLEAN : ProcessorDone(l, ok)
  \/ \E cutoff \in 1..doneClock : Cleanup(cutoff)

SessionListSpec == Init /\ [][SessionListNext]_vars

\* The queue with a processor whose calls return and timers that fire; when
\* enqueue and setProcessor are called is up to the callers.
QueueLiveSpec ==
  /\ Init /\ [][QueueNext]_vars
  /\ \A l \in LoopIds : WF_vars(LoopWake(l))
  /\ \A l \in LoopIds : WF_vars(\E ok \in BOOLEAN : ProcessorDone(l, ok))

\* The same with every message enqueued without a session id: a session
\* list holds only what associateWithSession pushed.
AssociateNext ==
  \/ \E p \in {"low", "normal"} : Enqueue(p, 0)
  \/ \E m \in MsgIds, s \in ListSessionIds : AssociateWithSession(m, s)
  \/ SetProcessor
  \/ \E l \in LoopIds : LoopWake(l)
  \/ \E l \in LoopIds, ok \in BOOLEAN : ProcessorDone(l, ok)
  \/ \E cutoff \in 1..doneClock : Cleanup(cutoff)

AssociateSpec == Init /\ [][AssociateNext]_vars

\* The queue with stop calls as well.
QueueStopNext ==
  \/ QueueNext
  \/ Stop

QueueStopSpec == Init /\ [][QueueStopNext]_vars

\* ------------------------------------------------------------ WorktreeManager
\* The git commands of one call are taken as one step: a call is modelled by
\* its synchronous head (where it has one) and by the step in which its git
\* commands settle, each command succeeding or failing as the repository state
\* and the environment decide.

outsideWorktree == <<coordVars, progVars, queueVars, aggVars, runVars>>

generateSessionId(t, random) == <<t, random>>
generateBranchName(slug, t) == <<slug, t>>
worktreePath(id) == id        \* join(worktreeBase, sessionId)
Created == {o \in ObjIds : wmObj[o].status # "none"}
getSession(id) == wmSessions[id]

\* createSession up to its first await: ids from the clock and Math.random,
\* the new object stored in the map under its id; ch is the channel of the
\* message that triggered the session (triggeredBy.channelId).
CreateSessionCall(slug, random, ch) ==
  /\ Created # ObjIds
  /\ LET o == Min(ObjIds \ Created)
         id == generateSessionId(now, random)
     IN /\ wmObj' = [wmObj EXCEPT ![o] =
                       [id |-> id, branchName |-> generateBranchName(slug, now),
                        channelId |-> ch, status |-> "creating", commits |-> <<>>, pendingMessages |-> 0,
                        shouldCheckpoint |-> FALSE, checkpointCount |-> 0, call |-> "create"]]
        /\ wmSessions' = [wmSessions EXCEPT ![id] = o]
  /\ UNCHANGED <<now, branches, dirs, mainRepo, remote, lastMerge,
                 outsideWorktree>>

\* git branch <name> <start> fails when the branch exists (from origin/<default>
\* and from <default> alike); git worktree add fails when the path exists.
gitBranchCreates(bs, b, ok) == ok /\ b \notin bs
gitWorktreeAdds(ds, p, ok) == ok /\ p \notin ds

\* The git commands of createSession settle: 'active', or 'failed' and a throw.
CreateSessionSettle(o, e) ==
  /\ wmObj[o].call = "create"
  /\ LET b == wmObj[o].branchName
         p == worktreePath(wmObj[o].id)
         made == gitBranchCreates(branches, b, branchCreated(e))
         added == made /\ gitWorktreeAdds(dirs, p, e.add)
     IN /\ branches' = IF made THEN branches \cup {b} ELSE branches
        /\ dirs' = IF added THEN dirs \cup {p} ELSE dirs
        /\ wmObj' = [wmObj EXCEPT ![o].status = IF added THEN "active" ELSE "failed",
                                  ![o].call = "none"]
  /\ UNCHANGED <<wmSessions, now, mainRepo, remote, lastMerge,
                 outsideWorktree>>

\* The callers of these specifications make one call on a session at a time
\* (WorktreeManager itself does not check it): a call starts when no other
\* call on the session is pending.
\* commitChanges up to its first await (an unknown id throws and changes nothing).
CommitChangesCall(id) ==
  /\ getSession(id) # 0
  /\ wmObj[getSession(id)].call = "none"
  /\ wmObj' = [wmObj EXCEPT ![getSession(id)].status = "committing",
                            ![getSession(id)].call = "commit"]
  /\ UNCHANGED <<wmSessions, now, branches, dirs, mainRepo, remote,
                 lastMerge, outsideWorktree>>

\* What decides the git commands of one commitChanges call: whether add -A and
\* status --porcelain run, whether the generator left changes in the worktree,
\* whether commit and rev-parse HEAD run.  A command the call does not reach
\* has one outcome here.
GitCommitEnv ==
  [add : {FALSE}, status : {TRUE}, changes : {FALSE}, commit : {TRUE}, revparse : {TRUE}]
  \cup [add : {TRUE}, status : {FALSE}, changes : {FALSE}, commit : {TRUE}, revparse : {TRUE}]
  \cup [add : {TRUE}, status : {TRUE}, changes : {FALSE}, commit : {TRUE}, revparse : {TRUE}]
  \cup [add : {TRUE}, status : {TRUE}, changes : {TRUE}, commit : {FALSE}, revparse : {TRUE}]
  \cup [add : {TRUE}, status : {TRUE}, changes : {TRUE}, commit : {TRUE}, revparse : BOOLEAN]

\* How the call ends.  "unrecorded": the commit was created and reading its
\* hash failed.
commitOutcome(hasDir, e) ==
  IF ~(hasDir /\ e.add /\ e.status) THEN "failed"
  ELSE IF ~e.changes THEN "clean"
  ELSE IF ~e.commit THEN "failed"
  ELSE IF ~e.revparse THEN "unrecorded"
  ELSE "committed"

commitCreated(outcome) == outcome \in {"committed", "unrecorded"}

\* The status commitChanges leaves: every exit sets 'active'.
statusAfterCommit(outcome) == "active"

\* The commit identifiers held in the lists of objects 1..n.
RECURSIVE recorded(_, _)
recorded(objs, n) == IF n = 0 THEN 0 ELSE Len(objs[n].commits) + recorded(objs, n - 1)

\* The session objects after the git commands of a commitChanges call on
\* object o; a commit identifier is written as its place in the list.
commitSettled(objs, o, outcome) ==
  [objs EXCEPT ![o].commits = IF outcome = "committed" THEN Append(@, Len(@) + 1) ELSE @,
               ![o].status = statusAfterCommit(outcome),
               ![o].call = "none"]

\* The git commands of a commitChanges call settle (the call made by
\* createCheckpoint settles in CheckpointSettle).
CommitChangesSettle(o, e) ==
  /\ wmObj[o].call = "commit"
  /\ runs[o].pc # "checkpointing"
  /\ LET outcome == commitOutcome(worktreePath(wmObj[o].id) \in dirs, e)
     IN /\ outcome = "committed" => recorded(wmObj, MaxCreates) < MaxCommits
        /\ wmObj' = commitSettled(wmObj, o, outcome)
  /\ UNCHANGED <<wmSessions, now, branches, dirs, mainRepo, remote, lastMerge,
                 outsideWorktree>>

\* rebaseOntoMain up to its first await, and its git commands settling:
\* 'active' again whether the rebase went through or was aborted.
RebaseOntoMainCall(id) ==
  /\ getSession(id) # 0
  /\ wmObj[getSession(id)].call = "none"
  /\ wmObj' = [wmObj EXCEPT ![getSession(id)].status = "rebasing",
                            ![getSession(id)].call = "rebase"]
  /\ UNCHANGED <<wmSessions, now, branches, dirs, mainRepo, remote,
                 lastMerge, outsideWorktree>>

RebaseOntoMainSettle(o) ==
  /\ wmObj[o].call = "rebase"
  /\ wmObj' = [wmObj EXCEPT ![o].status = "active", ![o].call = "none"]
  /\ UNCHANGED <<wmSessions, now, branches, dirs, mainRepo, remote,
                 lastMerge, outsideWorktree>>

\* The environment: the clock moves on, a remote is added or removed, the main repository is left with local
\* changes, with untracked files, or on another branch.
Tick ==
  /\ now + 1 \in ClockValues
  /\ now' = now + 1
  /\ UNCHANGED <<wmSessions, wmObj, branches, dirs, mainRepo, remote,
                 lastMerge, outsideWorktree>>

SetRemote ==
  /\ remote' = ~remote
  /\ UNCHANGED <<wmSessions, wmObj, now, branches, dirs, mainRepo,
                 lastMerge, outsideWorktree>>

MainDisturbances == {"dirty", "untracked", "head"}

DisturbMain(what) ==
  /\ mainRepo' = CASE what = "dirty" -> [mainRepo EXCEPT !.dirty = TRUE]
                   [] what = "untracked" -> [mainRepo EXCEPT !.untracked = TRUE]
                   [] what = "head" -> [mainRepo EXCEPT !.head = "other"]
  /\ mainRepo' # mainRepo
  /\ UNCHANGED <<wmSessions, wmObj, now, branches, dirs, remote,
                 lastMerge, outsideWorktree>>

\* What decides the git commands of one mergeToMain call.  merge: "ok", or
\* why git merge fails ("conflict": conflicting hunks; "local": local changes
\* that would be overwritten; "untracked": untracked files that would be
\* overwritten; "other").  restore: the commands of the restore step.  The
\* outcomes of fetch and pull are caught and dropped, and they are left out;
\* a command the call does not reach has one outcome here.
MergeCauses == {"conflict", "local", "untracked", "other"}
GitMergeEnv ==
  [checkout : {FALSE}, merge : {"ok"}, status : {TRUE}, abort : {TRUE}, push : {FALSE},
   restore : BOOLEAN]
  \cup [checkout : {TRUE}, merge : {"ok"}, status : {TRUE}, abort : {TRUE}, push : BOOLEAN,
        restore : {TRUE}]
  \cup [checkout : {TRUE}, merge : MergeCauses, status : BOOLEAN, abort : BOOLEAN,
        push : {FALSE}, restore : BOOLEAN]

\* An environment the repository state allows: without a remote the push
\* fails (as fetch and pull do); a missing branch or a merge in progress cannot
\* be merged; the merge is refused for local changes or untracked files only
\* when the main repository has them.
feasible(e, main, hasRemote, branchExists) ==
  /\ ~hasRemote => ~e.push
  /\ (~branchExists \/ main.merging) => e.merge = "other"
  /\ e.merge = "local" => main.dirty
  /\ e.merge = "untracked" => main.untracked

\* The phrases of git merge's error message and of git status' output that
\* mergeToMain looks for.
gitMergeStderr(cause) ==
  CASE cause = "local" -> {"local changes", "would be overwritten"}
    [] cause = "untracked" -> {"untracked working tree files", "would be overwritten"}
    [] cause = "conflict" -> {"CONFLICT"}
    [] OTHER -> {}

gitStatusText(main) == IF main.merging THEN {"Unmerged", "both modified"} ELSE {}

\* The tests of the merge catch block, in their order.
classify(errorStr, status) ==
  IF "Unmerged" \in status \/ "both modified" \in status THEN "merge_conflict"
  ELSE IF "local changes" \in errorStr \/ "would be overwritten" \in errorStr THEN "local_changes"
  ELSE IF "untracked working tree files" \in errorStr THEN "untracked_files"
  ELSE "throw"

\* The restore step of the outer catch: checkout <default>, then reset --hard;
\* a failing checkout ends it.
restoreMain(main, ok) ==
  IF ok THEN [main EXCEPT !.head = "default", !.merging = FALSE, !.dirty = FALSE] ELSE main

\* The outer catch: restore, then the result 'other'.
mergeFailed(main, cause, e) ==
  [result |-> "other", cause |-> cause, restored |-> TRUE, pushed |-> FALSE,
   main |-> restoreMain(main, e.restore)]

\* (variant: a failing push is not caught)
pushStepFatal(ok) == IF ok THEN "success" ELSE "throw"

\* try { push } catch { }: the push cannot fail the call.
pushStep(ok) == "success"

\* mergeToMain on a known session, as a function of the main repository.
mergeToMain(main, e) ==
  IF ~e.checkout THEN mergeFailed(main, "checkout", e)
  ELSE LET m1 == [main EXCEPT !.head = "default"] IN
    IF e.merge = "ok"
    THEN IF pushStep(e.push) = "throw"
         THEN mergeFailed(m1, "push", e)
         ELSE [result |-> "success", cause |-> "none", restored |-> FALSE, pushed |-> e.push,
               main |-> m1]
    ELSE LET m2 == IF e.merge = "conflict" THEN [m1 EXCEPT !.merging = TRUE] ELSE m1
             class == classify(gitMergeStderr(e.merge), gitStatusText(m2))
         IN IF ~e.status THEN mergeFailed(m2, e.merge, e)
            ELSE IF class = "merge_conflict"
            THEN IF e.abort
                 THEN [result |-> class, cause |-> e.merge, restored |-> FALSE,
                       pushed |-> FALSE, main |-> [m2 EXCEPT !.merging = FALSE]]
                 ELSE mergeFailed(m2, e.merge, e)
            ELSE IF class = "throw" THEN mergeFailed(m2, e.merge, e)
            ELSE [result |-> class, cause |-> e.merge, restored |-> FALSE, pushed |-> FALSE,
                  main |-> m2]

MergeToMain(id, e) ==
  /\ getSession(id) # 0
  /\ feasible(e, mainRepo, remote, wmObj[getSession(id)].branchName \in branches)
  /\ LET r == mergeToMain(mainRepo, e) IN
     /\ mainRepo' = r.main
     /\ lastMerge' = [result |-> r.result, cause |-> r.cause, restored |-> r.restored,
                      pushed |-> r.pushed]
  /\ UNCHANGED <<wmSessions, wmObj, now, branches, dirs, remote,
                 outsideWorktree>>

\* How the removal commands of completeSession (git worktree remove, rm) and
\* of abandonSession (git worktree remove, git branch -D, rm) end.  A command
\* the call does not reach has one outcome here.
CompleteEnv == {<<TRUE, TRUE>>, <<FALSE, TRUE>>, <<FALSE, FALSE>>}
AbandonEnv ==
  {<<TRUE, TRUE, TRUE>>, <<TRUE, FALSE, TRUE>>, <<TRUE, FALSE, FALSE>>,
   <<FALSE, TRUE, TRUE>>, <<FALSE, TRUE, FALSE>>}

\* (variant: the branch deletion of completeSession is not commented out)
branchesAfterCompleteDeleting(bs, b) == bs \ {b}

\* completeSession leaves the branch.
branchesAfterComplete(bs, b) == bs

\* completeSession on a known session: git worktree remove, or rm -rf when it
\* fails (its failure ignored), then 'completed'.
complete(o, removeOK, rmOK) ==
  LET p == worktreePath(wmObj[o].id)
      removed == (removeOK /\ p \in dirs) \/ rmOK
  IN /\ wmObj' = [wmObj EXCEPT ![o].status = "completed"]
     /\ dirs' = IF removed THEN dirs \ {p} ELSE dirs
     /\ branches' = branchesAfterComplete(branches, wmObj[o].branchName)

CompleteSessionWm(id, removeOK, rmOK) ==
  /\ getSession(id) # 0
  /\ wmObj[getSession(id)].call = "none"
  /\ complete(getSession(id), removeOK, rmOK)
  /\ UNCHANGED <<wmSessions, now, mainRepo, remote, lastMerge, outsideWorktree>>

\* What abandonSession does to session object o: git worktree remove and git
\* branch -D in one try, rm -rf when either fails (its failure ignored), then
\* 'abandoned'.
abandon(o, removeOK, branchOK, rmOK) ==
  LET p == worktreePath(wmObj[o].id)
      b == wmObj[o].branchName
      gitRemoved == removeOK /\ p \in dirs
      deleted == gitRemoved /\ branchOK /\ b \in branches
      removed == gitRemoved \/ (~deleted /\ rmOK)
  IN /\ dirs' = IF removed THEN dirs \ {p} ELSE dirs
     /\ branches' = IF deleted THEN branches \ {b} ELSE branches
     /\ wmObj' = [wmObj EXCEPT ![o].status = "abandoned"]

\* abandonSession on a known session.
AbandonSession(id, removeOK, branchOK, rmOK) ==
  /\ getSession(id) # 0
  /\ wmObj[getSession(id)].call = "none"
  /\ abandon(getSession(id), removeOK, branchOK, rmOK)
  /\ UNCHANGED <<wmSessions, now, mainRepo, remote, lastMerge, outsideWorktree>>

\* createSession calls that overlap in time, with every reading of the clock
\* and of Math.random.
CreateNext ==
  \/ \E slug \in Slugs, random \in RandomValues : CreateSessionCall(slug, random, 1)
  \/ \E o \in ObjIds, e \in GitCreateEnv : CreateSessionSettle(o, e)
  \/ Tick

CreateSpec == Init /\ [][CreateNext]_vars

\* A createSession call for a task description of its own, its random part
\* different from that of every earlier call.
NewSession ==
  CreateSessionCall(Cardinality(Created) + 1, Cardinality(Created) + 1,
                    Cardinality(Created) + 1)

\* The life of sessions: every operation on a session but the merge.
WorktreeNext ==
  \/ NewSession
  \/ \E o \in ObjIds, e \in GitCreateEnv : CreateSessionSettle(o, e)
  \/ \E id \in WtSessionIds : CommitChangesCall(id)
  \/ \E o \in ObjIds, e \in GitCommitEnv : CommitChangesSettle(o, e)
  \/ \E id \in WtSessionIds : RebaseOntoMainCall(id)
  \/ \E o \in ObjIds : RebaseOntoMainSettle(o)
  \/ \E id \in WtSessionIds, r \in CompleteEnv : CompleteSessionWm(id, r[1], r[2])
  \/ \E id \in WtSessionIds, r \in AbandonEnv : AbandonSession(id, r[1], r[2], r[3])

WorktreeSpec == Init /\ [][WorktreeNext]_vars

\* Merging session branches into the main repository.
MergeNext ==
  \/ NewSession
  \/ \E o \in ObjIds, e \in GitCreateEnv : CreateSessionSettle(o, e)
  \/ \E id \in WtSessionIds, e \in GitMergeEnv : MergeToMain(id, e)
  \/ SetRemote
  \/ \E what \in MainDisturbances : DisturbMain(what)

MergeSpec == Init /\ [][MergeNext]_vars

\* ---------------------------------------------------------- MessageAggregator
\* The clock is read in the units of ClockValues; a message carries the
\* timestamp its transport gave it, not later than its arrival.
aggregationWindow == 1
Timestamps == {0} \cup ClockValues

\* (variant: the age of the message just added)
timeSinceLast(messages, t) == t - messages[Len(messages)].timestamp

\* Date.now() - buffer.messages[0].timestamp.getTime()
timeSinceFirst(messages, t) == t - messages[1].timestamp

\* addMessage at clock reading t: the buffers after the call and what it returns.
addMessage(buffers, ch, message, t) ==
  LET messages == Append(buffers[ch], message) IN
  IF timeSinceFirst(messages, t) >= aggregationWindow
  THEN [buffers |-> [buffers EXCEPT ![ch] = <<>>],
        result |-> [op |-> "addMessage", shouldAggregate |-> TRUE, messages |-> messages]]
  ELSE [buffers |-> [buffers EXCEPT ![ch] = messages],
        result |-> [op |-> "addMessage", shouldAggregate |-> FALSE, messages |-> messages]]

AddMessage(ch, timestamp) ==
  /\ aggCounter < MaxMessages
  /\ timestamp <= now
  /\ LET r == addMessage(channelBuffers, ch, [id |-> aggCounter + 1, timestamp |-> timestamp], now)
     IN /\ channelBuffers' = r.buffers
        /\ aggregated' = r.result
  /\ aggCounter' = aggCounter + 1
  /\ UNCHANGED <<coordVars, progVars, queueVars, worktreeVars, runVars>>

\* forceAggregate(channelId): a copy of the buffer is returned, the buffer emptied.
ForceAggregate(ch) ==
  /\ aggregated' = [op |-> "forceAggregate", messages |-> channelBuffers[ch]]
  /\ channelBuffers' = [channelBuffers EXCEPT ![ch] = <<>>]
  /\ UNCHANGED <<aggCounter, coordVars, progVars, queueVars, worktreeVars, runVars>>

AggregatorNext ==
  \/ \E ch \in AggChannelIds, ts \in Timestamps : AddMessage(ch, ts)
  \/ \E ch \in AggChannelIds : ForceAggregate(ch)
  \/ Tick

AggregatorSpec == Init /\ [][AggregatorNext]_vars

\* ---------------------------------------------- checkpoint and continue
\* The generation run of a self-edit session (startSelfEditSession from the
\* runner.run call on, handleCheckpointContinuation, createCheckpoint).  The
\* Arbiter holds the session object itself; the ids of these sessions differ,
\* so the object and the map entry of its id are the same.  What follows a run
\* that was not aborted (final commit, merge, cleanup) is not part of this
\* section.

runFrame ==
  <<wmSessions, now, mainRepo, remote, lastMerge, runner, coordVars, progVars, queueVars, aggVars>>

\* let checkpointAborted = false; runner.run(...)
StartRun(o) ==
  /\ wmObj[o].status = "active"
  /\ runs[o].pc = "idle"
  /\ runs' = [runs EXCEPT ![o].pc = "running", ![o].checkpointAborted = FALSE,
                          ![o].aborts = 0, ![o].made = 0]
  /\ UNCHANGED <<wmObj, branches, dirs, checkpoints, runFrame>>

\* The first session of the map that is 'active' and was triggered in the
\* channel, 0 for undefined.  The ids of these sessions differ, so the order of
\* the map is the order of creation.
findSessionByChannel(ch) ==
  LET found == {o \in ObjIds : /\ wmObj[o].status = "active"
                               /\ wmObj[o].channelId = ch
                               /\ getSession(wmObj[o].id) = o}
  IN IF found = {} THEN 0 ELSE Min(found)

\* handleIncomingMessage for a message in the channel of a session that
\* findSessionByChannel returns (status 'active').
FollowUp(o) ==
  /\ wmObj[o].status = "active"
  /\ findSessionByChannel(wmObj[o].channelId) = o
  /\ runs[o].received < MaxFollowUps
  /\ wmObj' = [wmObj EXCEPT ![o].pendingMessages = @ + 1, ![o].shouldCheckpoint = TRUE]
  /\ runs' = [runs EXCEPT ![o].received = @ + 1]
  /\ UNCHANGED <<branches, dirs, checkpoints, runFrame>>

\* The test of the onOutput callback on a tool_result event.
mayAbort(shouldCheckpoint, checkpointAborted) == shouldCheckpoint /\ ~checkpointAborted

\* A tool_result event of the run that passes the test: the run is aborted.
ToolResult(o) ==
  /\ runs[o].pc = "running"
  /\ mayAbort(wmObj[o].shouldCheckpoint, runs[o].checkpointAborted)
  /\ runs' = [runs EXCEPT ![o].checkpointAborted = TRUE, ![o].aborts = @ + 1]
  /\ UNCHANGED <<wmObj, branches, dirs, checkpoints, runFrame>>

\* runner.run resolves: the continuation when the run was aborted for a
\* checkpoint, the end of the session otherwise.
RunEnds(o) ==
  /\ runs[o].pc = "running"
  /\ runs' = [runs EXCEPT ![o].pc = IF runs[o].checkpointAborted THEN "continuation"
                                    ELSE "finishing"]
  /\ UNCHANGED <<wmObj, branches, dirs, checkpoints, runFrame>>

\* session.pendingMessages = []; session.shouldCheckpoint = false
cleared(objs, o) == [objs EXCEPT ![o].pendingMessages = 0, ![o].shouldCheckpoint = FALSE]

\* The messages in session.pendingMessages: the last ones received.
pendingIds(s, r) == (r.received - s.pendingMessages + 1)..r.received

\* (variant: only the first pending message)
followUpsFirstOnly(s, r) == {r.received - s.pendingMessages + 1}

\* The follow-ups that buildContinuationPrompt puts in the prompt.
followUps(s, r) == pendingIds(s, r)

\* handleCheckpointContinuation up to the commit of createCheckpoint: getDiff
\* and getChangedFiles (ok: neither throws; changed: files are listed).  With
\* changed files checkpointCount is incremented and commitChanges is called.
CreateCheckpoint(o, ok, changed) ==
  /\ runs[o].pc = "continuation"
  /\ wmObj[o].call = "none"
  /\ IF ~ok
     THEN /\ runs' = [runs EXCEPT ![o].pc = "failing"]
          /\ UNCHANGED wmObj
     ELSE IF ~changed
     THEN /\ runs' = [runs EXCEPT ![o].pc = "resuming",
                                  ![o].prompt = followUps(wmObj[o], runs[o])]
          /\ wmObj' = cleared(wmObj, o)
     ELSE /\ runs' = [runs EXCEPT ![o].pc = "checkpointing"]
          /\ wmObj' = [wmObj EXCEPT ![o].checkpointCount = @ + 1,
                                    ![o].status = "committing", ![o].call = "commit"]
  /\ UNCHANGED <<branches, dirs, checkpoints, runFrame>>

\* The commitChanges call of createCheckpoint settles.  A commit that was
\* created carries "Checkpoint <checkpointCount>" in its message.  With a hash
\* returned the flush of the checkpoint notice is awaited; with '' the prompt
\* is built and the flags are cleared at once; a throw goes to the catch block
\* of handleCheckpointContinuation.
CheckpointSettle(o, e) ==
  /\ runs[o].pc = "checkpointing"
  /\ LET outcome == commitOutcome(worktreePath(wmObj[o].id) \in dirs, e)
         settled == commitSettled(wmObj, o, outcome)
     IN /\ outcome = "committed" => recorded(wmObj, MaxCreates) < MaxCommits
        /\ checkpoints' = IF commitCreated(outcome)
                          THEN [checkpoints EXCEPT ![o] = Append(@, wmObj[o].checkpointCount)]
                          ELSE checkpoints
        /\ IF outcome = "committed"
           THEN /\ wmObj' = settled
                /\ runs' = [runs EXCEPT ![o].pc = "prompting", ![o].made = @ + 1]
           ELSE IF outcome = "clean"
           THEN /\ wmObj' = cleared(settled, o)
                /\ runs' = [runs EXCEPT ![o].pc = "resuming",
                                        ![o].prompt = followUps(wmObj[o], runs[o])]
           ELSE /\ wmObj' = settled
                /\ runs' = [runs EXCEPT ![o].pc = "failing",
                                        ![o].made = IF commitCreated(outcome) THEN @ + 1 ELSE @]
  /\ UNCHANGED <<branches, dirs, runFrame>>

\* The flush has settled: buildContinuationPrompt, then the flags are cleared.
BuildPrompt(o) ==
  /\ runs[o].pc = "prompting"
  /\ runs' = [runs EXCEPT ![o].pc = "resuming", ![o].prompt = followUps(wmObj[o], runs[o])]
  /\ wmObj' = cleared(wmObj, o)
  /\ UNCHANGED <<branches, dirs, checkpoints, runFrame>>

\* The run of the continuation prompt starts.
Resume(o) ==
  /\ runs[o].pc = "resuming"
  /\ runs' = [runs EXCEPT ![o].pc = "running", ![o].checkpointAborted = FALSE,
                          ![o].aborts = 0, ![o].made = 0]
  /\ UNCHANGED <<wmObj, branches, dirs, checkpoints, runFrame>>

\* The catch block of handleCheckpointContinuation: the session is abandoned
\* (the coordinator's part of the block is modelled with the coordinator).
ContinuationFailed(o, removeOK, branchOK, rmOK) ==
  /\ runs[o].pc = "failing"
  /\ abandon(o, removeOK, branchOK, rmOK)
  /\ runs' = [runs EXCEPT ![o].pc = "finished"]
  /\ UNCHANGED <<checkpoints, runFrame>>

CheckpointNext ==
  \/ NewSession
  \/ \E o \in ObjIds, e \in GitCreateEnv : CreateSessionSettle(o, e)
  \/ \E o \in ObjIds : StartRun(o)
  \/ \E o \in ObjIds : FollowUp(o)
  \/ \E o \in ObjIds : ToolResult(o)
  \/ \E o \in ObjIds : RunEnds(o)
  \/ \E o \in ObjIds, ok \in BOOLEAN, changed \in BOOLEAN : CreateCheckpoint(o, ok, changed)
  \/ \E o \in ObjIds, e \in GitCommitEnv : CheckpointSettle(o, e)
  \/ \E o \in ObjIds : BuildPrompt(o)
  \/ \E o \in ObjIds : Resume(o)
  \/ \E o \in ObjIds, r \in AbandonEnv : ContinuationFailed(o, r[1], r[2], r[3])

CheckpointSpec == Init /\ [][CheckpointNext]_vars

\* The checkpoint cycles of the first session alone.
CycleNext ==
  \/ Created = {} /\ NewSession
  \/ \E o \in ObjIds, e \in GitCreateEnv : CreateSessionSettle(o, e)
  \/ \E o \in ObjIds : StartRun(o)
  \/ \E o \in ObjIds : FollowUp(o)
  \/ \E o \in ObjIds : ToolResult(o)
  \/ \E o \in ObjIds : RunEnds(o)
  \/ \E o \in ObjIds, ok \in BOOLEAN, changed \in BOOLEAN : CreateCheckpoint(o, ok, changed)
  \/ \E o \in ObjIds, e \in GitCommitEnv : CheckpointSettle(o, e)
  \/ \E o \in ObjIds : BuildPrompt(o)
  \/ \E o \in ObjIds : Resume(o)
  \/ \E o \in ObjIds, r \in AbandonEnv : ContinuationFailed(o, r[1], r[2], r[3])

CycleSpec == Init /\ [][CycleNext]_vars

\* ---------------------------------------------- the end of a session
\* What follows a generation run that was not aborted for a checkpoint, in
\* startSelfEditSession and in handleCheckpointContinuation alike.  The output
\* stream catches its own errors; its awaits are where follow-ups may arrive.

endFrame == <<wmSessions, now, remote, runner, checkpoints, coordVars, progVars, queueVars, aggVars>>

\* runner.run resolves with success false (exit code not 0, or spawn error)
\* in a run that was not aborted.
RunFails(o) ==
  /\ runs[o].pc = "running"
  /\ ~runs[o].checkpointAborted
  /\ runs' = [runs EXCEPT ![o].pc = "finalFailed"]
  /\ UNCHANGED <<wmObj, branches, dirs, mainRepo, lastMerge, endFrame>>

\* The final commitChanges call, up to its first await.
FinalCommit(o) ==
  /\ runs[o].pc = "finishing"
  /\ wmObj[o].call = "none"
  /\ runs' = [runs EXCEPT ![o].pc = "finalCommit"]
  /\ wmObj' = [wmObj EXCEPT ![o].status = "committing", ![o].call = "commit"]
  /\ UNCHANGED <<branches, dirs, mainRepo, lastMerge, endFrame>>

\* The final commit settles: a hash leads to the merge, '' to the end without
\* changes, a throw to the catch block.
FinalCommitSettle(o, e) ==
  /\ runs[o].pc = "finalCommit"
  /\ LET outcome == commitOutcome(worktreePath(wmObj[o].id) \in dirs, e)
     IN /\ outcome = "committed" => recorded(wmObj, MaxCreates) < MaxCommits
        /\ wmObj' = commitSettled(wmObj, o, outcome)
        /\ runs' = [runs EXCEPT ![o].pc = CASE outcome = "committed" -> "merging"
                                            [] outcome = "clean" -> "finalNoChanges"
                                            [] OTHER -> "failing"]
  /\ UNCHANGED <<branches, dirs, mainRepo, lastMerge, endFrame>>

\* (variant: a repair after every failed merge)
afterMergeRepairing(success, at) == IF success THEN "finalMerged" ELSE "repairing"

\* Where the flow goes after mergeToMain: a failed first merge (every failure
\* carries a conflictType) starts the repair, a failed retry ends the session.
afterMerge(success, at) ==
  IF success THEN "finalMerged"
  ELSE IF at = "merging" THEN "repairing"
  ELSE "finalMergeFailed"

\* mergeToMain, the first call or the retry.
MergeStep(o, e) ==
  /\ runs[o].pc \in {"merging", "retrying"}
  /\ feasible(e, mainRepo, remote, wmObj[o].branchName \in branches)
  /\ LET r == mergeToMain(mainRepo, e)
         to == afterMerge(r.result = "success", runs[o].pc)
     IN /\ mainRepo' = r.main
        /\ lastMerge' = [result |-> r.result, cause |-> r.cause, restored |-> r.restored,
                         pushed |-> r.pushed]
        /\ runs' = [runs EXCEPT ![o].pc = to, ![o].merges = @ + 1,
                                ![o].repairs = IF to = "repairing" THEN @ + 1 ELSE @]
  /\ UNCHANGED <<wmObj, branches, dirs, endFrame>>

\* resolveConflictsWithClaude returns: the generator ran in the main repository
\* (left as it was, or cleaned up); true leads to the retry.
RepairEnds(o, resolved, cleaned) ==
  /\ runs[o].pc = "repairing"
  /\ mainRepo' = IF cleaned THEN CleanMain ELSE mainRepo
  /\ runs' = [runs EXCEPT ![o].pc = IF resolved THEN "retrying" ELSE "finalMergeFailed"]
  /\ UNCHANGED <<wmObj, branches, dirs, lastMerge, endFrame>>

SessionOutcome == {"merged", "mergeFailed", "noChanges", "failed"}

outcomeOf(label) ==
  CASE label = "finalMerged" -> "merged"
    [] label = "finalMergeFailed" -> "mergeFailed"
    [] label = "finalNoChanges" -> "noChanges"
    [] label = "finalFailed" -> "failed"

\* The calls on the coordinator at the end: completeSession with its success
\* flag, and requestRestart after a merge.
coordinatorCalls(outcome) ==
  [success |-> outcome \in {"merged", "noChanges"}, restart |-> outcome = "merged"]

\* outputStream.finalize has settled: the coordinator is told.
Finalize(o) ==
  /\ runs[o].pc \in Finals
  /\ LET calls == coordinatorCalls(outcomeOf(runs[o].pc))
     IN runs' = [runs EXCEPT ![o].pc = "cleaning",
                             ![o].outcome = outcomeOf(runs[o].pc),
                             ![o].coord = IF calls.success THEN "success" ELSE "failed",
                             ![o].restart = calls.restart]
  /\ UNCHANGED <<wmObj, branches, dirs, mainRepo, lastMerge, endFrame>>

\* "Clean up worktree": worktreeManager.completeSession, its throw caught.
CleanUpWorktree(o, removeOK, rmOK) ==
  /\ runs[o].pc = "cleaning"
  /\ wmObj[o].call = "none"
  /\ complete(o, removeOK, rmOK)
  /\ runs' = [runs EXCEPT ![o].pc = "finished"]
  /\ UNCHANGED <<mainRepo, lastMerge, endFrame>>

\* The first session from its creation to its end.
TerminalNext ==
  \/ CycleNext
  \/ \E o \in ObjIds : RunFails(o)
  \/ \E o \in ObjIds : FinalCommit(o)
  \/ \E o \in ObjIds, e \in GitCommitEnv : FinalCommitSettle(o, e)
  \/ \E o \in ObjIds, e \in GitMergeEnv : MergeStep(o, e)
  \/ \E o \in ObjIds, resolved \in BOOLEAN, cleaned \in BOOLEAN : RepairEnds(o, resolved, cleaned)
  \/ \E o \in ObjIds : Finalize(o)
  \/ \E o \in ObjIds, r \in CompleteEnv : CleanUpWorktree(o, r[1], r[2])
  \/ SetRemote
  \/ \E what \in MainDisturbances : DisturbMain(what)

TerminalSpec == Init /\ [][TerminalNext]_vars

\* handleIncomingMessage for a message of channel ch: a follow-up of the session
\* found, or else the decision, taken here to be self_edit, and the head of
\* createSession (a message that is answered or ignored changes nothing here).
HandleIncomingMessage(ch) ==
  IF findSessionByChannel(ch) # 0
  THEN FollowUp(findSessionByChannel(ch))
  ELSE CreateSessionCall(Cardinality(Created) + 1, Cardinality(Created) + 1, ch)

\* Sessions started and fed by the messages of the channels.
MessageNext ==
  \/ \E ch \in ChannelIds : HandleIncomingMessage(ch)
  \/ \E o \in ObjIds, e \in GitCreateEnv : CreateSessionSettle(o, e)
  \/ \E o \in ObjIds : StartRun(o)
  \/ \E o \in ObjIds : ToolResult(o)
  \/ \E o \in ObjIds : RunEnds(o)
  \/ \E o \in ObjIds, ok \in BOOLEAN, changed \in BOOLEAN : CreateCheckpoint(o, ok, changed)
  \/ \E o \in ObjIds, e \in GitCommitEnv : CheckpointSettle(o, e)
  \/ \E o \in ObjIds : BuildPrompt(o)
  \/ \E o \in ObjIds : Resume(o)
  \/ \E o \in ObjIds, r \in AbandonEnv : ContinuationFailed(o, r[1], r[2], r[3])

MessageSpec == Init /\ [][MessageNext]_vars

\* ------------------------------------------- the runner and its events
\* One generation run in detail: the subprocess, the events it streams, the
\* onOutput callbacks (each awaits outputStream.handleEvent before its test)
\* and abort with its timeout.  In the sections above the callback of a
\* tool_result event is one step (ToolResult) and the subprocess is left out.

ClaudeEventType == {"text", "tool_use", "tool_result", "result", "error"}

eventFrame ==
  <<wmSessions, now, mainRepo, remote, lastMerge, branches, dirs, checkpoints,
    coordVars, progVars, queueVars, aggVars>>

\* runner.run up to its await: spawn.
Spawn(o) ==
  /\ wmObj[o].status = "active"
  /\ runs[o].pc = "idle"
  /\ runs' = [runs EXCEPT ![o].pc = "running", ![o].checkpointAborted = FALSE,
                          ![o].aborts = 0, ![o].made = 0]
  /\ runner' = [runner EXCEPT ![o] = [NoRunner EXCEPT !.proc = "alive"]]
  /\ UNCHANGED <<wmObj, eventFrame>>

\* The subprocess may emit the event: a tool_result answers a tool_use, and
\* one tool runs at a time.
mayEmit(r, t) ==
  /\ t = "tool_use" => ~r.tool
  /\ t = "tool_result" => r.tool
  /\ t = "result" => ~r.tool

\* A line of stdout is parsed and handed to onOutput, which runs up to its
\* await of outputStream.handleEvent; the data handler does not await it.
OnOutput(o, t) ==
  /\ runner[o].proc = "alive"
  /\ mayEmit(runner[o], t)
  /\ t \notin runner[o].waiting
  /\ runner' = [runner EXCEPT ![o].waiting = @ \cup {t},
                              ![o].tool = IF t = "tool_use" THEN TRUE
                                          ELSE IF t = "tool_result" THEN FALSE ELSE @]
  /\ UNCHANGED <<runs, wmObj, eventFrame>>

\* subprocess.kill(signal): a signal is sent to a process that has not exited,
\* and process.killed is set when a signal was sent.
kill(r, signal) ==
  IF r.proc = "alive"
  THEN [r EXCEPT !.killed = TRUE, !.sigkill = @ \/ signal = "SIGKILL"]
  ELSE r

\* The callback of abort's setTimeout.
graceTimeout(r) ==
  IF r.proc # "none" /\ ~r.killed
  THEN kill([r EXCEPT !.timer = FALSE], "SIGKILL")
  ELSE [r EXCEPT !.timer = FALSE]

\* ClaudeRunner.abort
abort(r) ==
  IF r.proc # "none" /\ ~r.aborted
  THEN [kill([r EXCEPT !.aborted = TRUE], "SIGTERM") EXCEPT !.timer = TRUE]
  ELSE r

\* handleEvent has settled and the callback goes on: the test, and the abort.
HandlerResume(o, t) ==
  /\ t \in runner[o].waiting
  /\ IF t = "tool_result" /\ mayAbort(wmObj[o].shouldCheckpoint, runs[o].checkpointAborted)
     THEN /\ runs' = [runs EXCEPT ![o].checkpointAborted = TRUE, ![o].aborts = @ + 1]
          /\ runner' = [runner EXCEPT ![o] = abort([@ EXCEPT !.waiting = @ \ {t}])]
     ELSE /\ runner' = [runner EXCEPT ![o].waiting = @ \ {t}]
          /\ UNCHANGED runs
  /\ UNCHANGED <<wmObj, eventFrame>>

\* The 5 seconds of abort are over.
GraceTimeout(o) ==
  /\ runner[o].timer
  /\ runner' = [runner EXCEPT ![o] = graceTimeout(@)]
  /\ UNCHANGED <<runs, wmObj, eventFrame>>

\* The subprocess exits (at its end, or on a signal) and 'close' resolves the
\* run: the continuation when the run was aborted for a checkpoint, the end
\* of the session otherwise.
Close(o) ==
  /\ runner[o].proc = "alive"
  /\ runs[o].pc = "running"
  /\ runner' = [runner EXCEPT ![o].proc = "exited"]
  /\ runs' = [runs EXCEPT ![o].pc = IF runs[o].checkpointAborted THEN "continuation"
                                    ELSE "finishing"]
  /\ UNCHANGED <<wmObj, eventFrame>>

\* The first session and its initial run.
RunNext ==
  \/ Created = {} /\ NewSession
  \/ \E o \in ObjIds, e \in GitCreateEnv : CreateSessionSettle(o, e)
  \/ \E o \in ObjIds : Spawn(o)
  \/ \E o \in ObjIds : FollowUp(o)
  \/ \E o \in ObjIds, t \in ClaudeEventType : OnOutput(o, t)
  \/ \E o \in ObjIds, t \in ClaudeEventType : HandlerResume(o, t)
  \/ \E o \in ObjIds : GraceTimeout(o)
  \/ \E o \in ObjIds : Close(o)

RunSpec == Init /\ [][RunNext]_vars


----------------------------------------------------------------------------
\* Claims about the coordinator, checked under CoordSpec.

StartedIds == {started[i].id : i \in 1..Len(started)}
PendingIds == {pendingActions[i].id : i \in 1..Len(pendingActions)}

\* C1: a restart action queued while N >= 1 sessions were active has not begun
\* executing (and so the process has not exited for it) in any state in which
\* one of those N sessions has not yet been completed via completeSession.
C1_DrainBeforeRestart ==
  \A i \in 1..Len(started) :
    started[i].type = "restart" => queuedAt[started[i].id].active \subseteq completed

C1_Witness ==
  \E i \in 1..Len(started) :
    /\ started[i].type = "restart"
    /\ Cardinality(queuedAt[started[i].id].active) >= 2
    /\ exited

\* C2: registerSession adds the session iff the state is running; otherwise it
\* throws and leaves the active set, the pending list and the state unchanged.
C2_RegistrationGating ==
  [][\A s \in SessionIds : RegisterSession(s) =>
        IF state = "running"
        THEN activeSessions' = activeSessions \cup {s} /\ thrown' = "none"
        ELSE /\ thrown' = NotAccepting
             /\ UNCHANGED <<activeSessions, pendingActions, state>>]_vars

C2_Witness ==
  /\ state = "draining"
  /\ thrown = NotAccepting
  /\ completed = {}
  /\ activeSessions # {}

\* C3 (as stated): queueAction with no active session leaves the action
\* pending and the state draining, and the next tick executes that action.
C3_Original ==
  [][/\ \A t \in PendingActionType : (QueueAction(t) /\ activeSessions = {}) =>
          /\ (actionIdCounter + 1) \in PendingIds'
          /\ (actionIdCounter + 1) \notin StartedIds'
          /\ state' = "draining"
     /\ ImmediateTick => Head(immediates) \in StartedIds']_vars

\* C3 (amended): queueAction with no active session does not execute the
\* action inside the call: on return the action is pending, a tick is
\* scheduled, and the state is draining, or still executing if it was
\* executing.  The tick runs without any completeSession call and begins the
\* oldest pending action; if none is pending the action has begun already.
C3_QueueWithNoSessions ==
  [][/\ \A t \in PendingActionType : (QueueAction(t) /\ activeSessions = {}) =>
          /\ (actionIdCounter + 1) \in PendingIds'
          /\ (actionIdCounter + 1) \notin StartedIds'
          /\ state' = (IF state = "running" THEN "draining" ELSE state)
          /\ state' \in {"draining", "executing"}
          /\ immediates' = Append(immediates, actionIdCounter + 1)
     /\ ImmediateTick =>
          IF pendingActions # <<>>
          THEN started' = Append(started, Head(pendingActions))
          ELSE Head(immediates) \in StartedIds]_vars

C3_Witness ==
  /\ completed = {}
  /\ \E i \in 1..Len(started) :
       /\ queuedAt[started[i].id].active = {}
       /\ queuedAt[started[i].id].state = "executing"

\* C4: actions begin executing in the order in which queueAction was called
\* (ids are handed out in call order).
C4_FifoExecution ==
  \A i, j \in 1..Len(started) : i < j => started[i].id < started[j].id

C4_Witness ==
  /\ Len(started) >= 2
  /\ \E i \in 1..Len(started) : queuedAt[started[i].id].busy

\* C5: completeSession of a registered id removes exactly that id, and starts
\* the pending actions iff no session remains and the state is draining;
\* otherwise state and pending list are unchanged.
C5_CompleteSession ==
  [][\A s \in SessionIds : (CompleteSession(s) /\ s \in activeSessions) =>
        /\ activeSessions' = activeSessions \ {s}
        /\ (started' # started) <=> (activeSessions' = {} /\ state = "draining")
        /\ ~(activeSessions' = {} /\ state = "draining")
             => UNCHANGED <<state, pendingActions>>]_vars

C5_Witness ==
  /\ Len(started) = 1
  /\ queuedAt[started[1].id].active # {}
  /\ completed # {}
  /\ activeSessions = {}

\* Claims about the program, checked under Spec.

Live == {"creating", "active", "committing", "rebasing"}

\* C6: every session in the coordinator's active set is known to the
\* WorktreeManager with status creating, active, committing or rebasing.
C6_ActiveSubset == \A s \in activeSessions : sessions[s] \in Live

\* C7: the canStartSession check and registerSession are one atomic step: while
\* a flow stands between them the coordinator still accepts sessions, and no
\* flow that passed the check has its registerSession call rejected.
C7_AtomicCheckRegister ==
  \A s \in SessionIds :
    /\ pc[s] = "creating" => canStartSession(Coord)
    /\ ~(pc[s] \in {"catch", "abandoning"} /\ s \notin sessionRegistered)

\* Claims about the message queue, checked under QueueSpec.

level(i) == indexOf(qm[queue[i]].priority)
QueueIds == {queue[i] : i \in 1..Len(queue)}
LowIds == {id \in QueueIds : qm[id].priority = "low"}

QueueSorted ==
  \A i, j \in 1..Len(queue) :
    i < j => level(i) < level(j) \/ (level(i) = level(j) /\ queue[i] < queue[j])

\* C8: the queue is ordered by priority band and, within a band, by arrival;
\* enqueue puts the new item after every item of equal or higher priority and
\* before every item of strictly lower priority, keeping the others in order.
C8_PriorityBandedFifo ==
  [][/\ QueueSorted'
     /\ \A p \in MessagePriority, s \in QueueSessionIds \cup {0} :
          (Enqueue(p, s) /\ qthrown' = "none") =>
            \E pos \in 1..Len(queue') :
              /\ queue'[pos] = msgCounter + 1
              /\ \A j \in 1..(pos - 1) : indexOf(qm'[queue'[j]].priority) <= indexOf(p)
              /\ \A j \in (pos + 1)..Len(queue') : indexOf(qm'[queue'[j]].priority) > indexOf(p)
              /\ spliceOut(queue', pos) = SelectSeq(queue, LAMBDA id : id \in QueueIds')]_vars

C8_Witness ==
  /\ msgCounter = MaxMessages
  /\ Len(queue) = MaxQueueSize
  /\ queue[1] = msgCounter
  /\ qthrown = "none"

\* C9: enqueue on a full queue without a low-priority item throws, whatever
\* the new priority, and changes neither the queue nor the session lists;
\* enqueue never removes an urgent, high or normal item.
C9_FullQueueThrows ==
  [][\A p \in MessagePriority, s \in QueueSessionIds \cup {0} :
        Enqueue(p, s) =>
          /\ (Len(queue) = MaxQueueSize /\ LowIds = {}) =>
                qthrown' = QueueFull /\ UNCHANGED <<queue, sessionMessages, qm>>
          /\ \A id \in QueueIds \ LowIds : id \in QueueIds']_vars

C9_Witness ==
  /\ qthrown = QueueFull
  /\ Len(queue) = MaxQueueSize
  /\ LowIds = {}
  /\ sessionMessages[1] # <<>>

\* C10: enqueue on a full queue holding a low-priority item removes exactly
\* the earliest enqueued low-priority item and inserts the new one; the queue
\* never holds more than maxQueueSize items.
C10_EvictOldestLow ==
  [][/\ Len(queue') <= MaxQueueSize
     /\ \A p \in MessagePriority, s \in QueueSessionIds \cup {0} :
          (Enqueue(p, s) /\ Len(queue) = MaxQueueSize /\ LowIds # {}) =>
            /\ QueueIds' = (QueueIds \ {Min(LowIds)}) \cup {msgCounter + 1}
            /\ Len(queue') = MaxQueueSize]_vars

C10_Witness ==
  /\ msgCounter = MaxMessages
  /\ doneClock = 0
  /\ Len(queue) = MaxQueueSize
  /\ \E id \in LowIds : id > 1
  /\ 1 \notin QueueIds

\* Claims about the message queue with stop, checked under QueueStopSpec.

RunningLoops == {l \in LoopIds : loops[l].pc # "off"}
ProcessingIds == {id \in QueueIds : qm[id].status = "processing"}

\* C11: at most one consumer loop is active and at most one message of the
\* queue has status 'processing', in every state.
C11_SingleConsumer ==
  /\ Cardinality(RunningLoops) <= 1
  /\ Cardinality(ProcessingIds) <= 1

-----------------------------------------------------------------------------
\* Claims about createSession, checked under CreateSpec.

DistinctPaths ==
  \A o1 \in Created, o2 \in Created :
    o1 # o2 => worktreePath(wmObj[o1].id) # worktreePath(wmObj[o2].id)
DistinctBranchNames ==
  \A o1 \in Created, o2 \in Created : o1 # o2 => wmObj[o1].branchName # wmObj[o2].branchName
NoRecordReplaced == \A o \in Created : getSession(wmObj[o].id) = o

\* C12: the sessions created by createSession have pairwise distinct worktree
\* paths and pairwise distinct branch names, and the sessions map still holds
\* every session created under its id (no record was replaced).
C12_UniqueWorkspaces == DistinctPaths /\ DistinctBranchNames /\ NoRecordReplaced


-----------------------------------------------------------------------------
\* Claims about the life of a session, checked under WorktreeSpec.

\* C13: a commitChanges call on a clean tree creates no commit; a call appends
\* exactly one identifier to the session's commit list when it creates a
\* commit and nothing otherwise; the status is 'active' when the call ends.
C13_CommitRecorded ==
  [][\A o \in ObjIds, e \in GitCommitEnv :
       CommitChangesSettle(o, e) =>
         LET outcome == commitOutcome(worktreePath(wmObj[o].id) \in dirs, e) IN
           /\ ~e.changes => ~commitCreated(outcome)
           /\ Len(wmObj'[o].commits) =
                Len(wmObj[o].commits) + (IF commitCreated(outcome) THEN 1 ELSE 0)
           /\ wmObj'[o].status = "active"]_vars


\* The status changes the session life cycle allows.
allowedStatusChange(a, b) ==
  \/ a = b
  \/ <<a, b>> \in {<<"none", "creating">>, <<"creating", "active">>, <<"creating", "failed">>,
                   <<"active", "committing">>, <<"committing", "active">>,
                   <<"active", "rebasing">>, <<"rebasing", "active">>}
  \/ a \in {"creating", "active", "committing", "rebasing"} /\ b \in {"completed", "abandoned"}

\* C18: the status of a session changes only along the life cycle; completed,
\* failed and abandoned are never left.
C18_StatusLifeCycle ==
  [][\A o \in ObjIds : allowedStatusChange(wmObj[o].status, wmObj'[o].status)]_vars

\* C19: after abandonSession on a known session (git branch -D and the rm
\* fallback being able to run) the session's branch does not exist, its
\* directory is removed and its status is 'abandoned'.
C19_AbandonRemovesAll ==
  [][\A id \in WtSessionIds, removeOK \in BOOLEAN :
       AbandonSession(id, removeOK, TRUE, TRUE) =>
         LET o == getSession(id) IN
           /\ wmObj[o].branchName \notin branches'
           /\ worktreePath(id) \notin dirs'
           /\ wmObj'[o].status = "abandoned"]_vars

\* C20: completeSession on a known session ends with status 'completed'
\* whatever becomes of the removal and of its fallback, and leaves every
\* branch; a step that deletes a branch is an abandonSession step.
C20_CompleteKeepsBranch ==
  [][/\ \A id \in WtSessionIds, r \in CompleteEnv :
          CompleteSessionWm(id, r[1], r[2]) =>
            wmObj'[getSession(id)].status = "completed" /\ branches' = branches
     /\ ~(branches \subseteq branches') =>
          \E id \in WtSessionIds, r \in AbandonEnv : AbandonSession(id, r[1], r[2], r[3])]_vars

C20_Witness ==
  \E o \in ObjIds :
    /\ wmObj[o].status = "completed"
    /\ wmObj[o].branchName \in branches
    /\ worktreePath(wmObj[o].id) \in dirs

-----------------------------------------------------------------------------
\* Claims about mergeToMain, checked under MergeSpec.

\* The classification that matches the cause of a failed merge.
matchingClass(cause, unmerged) ==
  CASE cause = "conflict" \/ unmerged -> "merge_conflict"
    [] cause = "local" -> "local_changes"
    [] cause = "untracked" -> "untracked_files"
    [] OTHER -> "other"

\* C14: when the merge step of mergeToMain fails (and the git commands that
\* follow it run), the classification returned matches the cause: local
\* changes give local_changes, untracked files give untracked_files, unmerged
\* paths give merge_conflict, anything else gives other.
C14_Classification ==
  [][\A e \in GitMergeEnv :
       (e.checkout /\ e.merge # "ok" /\ e.status /\ e.abort) =>
         \A id \in WtSessionIds :
           MergeToMain(id, e) => lastMerge'.result = matchingClass(e.merge, mainRepo.merging)]_vars


\* C15: after mergeToMain returns a failure result (the restore commands
\* being able to run), the restore step was attempted and the main repository
\* is on the default branch, with no merge in progress and no local changes.
C15_RestoredAfterFailure ==
  [][\A e \in GitMergeEnv :
       e.restore =>
         \A id \in WtSessionIds :
           (MergeToMain(id, e) /\ lastMerge'.result # "success") =>
             /\ lastMerge'.restored
             /\ mainRepo'.head = "default"
             /\ ~mainRepo'.merging
             /\ ~mainRepo'.dirty]_vars


\* C16: when the local merge commits and the push fails, as it does without a
\* remote, mergeToMain returns success, the restore step with its hard reset
\* is not run, and the main repository is left as the merge left it.
C16_PushFailureIgnored ==
  [][\A e \in GitMergeEnv :
       (e.checkout /\ e.merge = "ok" /\ ~e.push) =>
         \A id \in WtSessionIds :
           MergeToMain(id, e) =>
             /\ lastMerge'.result = "success"
             /\ ~lastMerge'.restored
             /\ mainRepo' = [mainRepo EXCEPT !.head = "default"]]_vars

C16_Witness == ~remote /\ lastMerge.result = "success" /\ ~lastMerge.pushed


-----------------------------------------------------------------------------
\* Claims about checkpoint and continue, checked under CheckpointSpec.

\* C17: one generation run is aborted at most once and gets at most one
\* checkpoint commit; the k-th checkpoint commit of a session is numbered k,
\* and checkpointCount is the number of checkpoint commits created (while no
\* checkpoint commit is being made).
C17_CoalescedCheckpoints ==
  \A o \in ObjIds :
    /\ runs[o].aborts <= 1
    /\ runs[o].made <= 1
    /\ \A k \in 1..Len(checkpoints[o]) : checkpoints[o][k] = k
    /\ runs[o].pc # "checkpointing" => wmObj[o].checkpointCount = Len(checkpoints[o])

-----------------------------------------------------------------------------
\* Claims about the session flow of the Arbiter, checked under Spec.

\* C21: createSession leaves the session 'active' whenever a branch command
\* (from origin/<default>, or from <default> after that failed) and worktree add
\* succeed, whatever fetch and the node_modules symlink did; when both branch
\* commands fail or worktree add fails, the session is left 'failed', the flow
\* ends in its catch without the session, and the session is not and never
\* becomes registered with the coordinator.
C21_CreateOutcome ==
  /\ [][\A e \in GitCreateEnv : \A s \in SessionIds :
          CreateSessionDone(s, e) =>
            IF (e.origin \/ e.local) /\ e.add
            THEN sessions'[s] = "active"
            ELSE /\ sessions'[s] = "failed"
                 /\ pc'[s] = "done"
                 /\ s \notin sessionRegistered'
                 /\ s \notin activeSessions']_vars
  /\ [](\A s \in SessionIds :
          sessions[s] = "failed" => s \notin sessionRegistered /\ s \notin activeSessions)

C21_Witness ==
  \E s, t \in SessionIds :
    /\ sessions[s] = "failed" /\ pc[s] = "done"
    /\ sessions[t] = "active" /\ t \in sessionRegistered /\ t \in activeSessions

-----------------------------------------------------------------------------
\* Claims about signals and the drain, checked under CoordSpec and DrainSpec.

\* C22: a termination signal handled in state running appends exactly one
\* shutdown action to the pending list and sets the state to draining; a
\* signal handled in state draining or executing leaves the pending list, the
\* active set and the state as they were.
C22_SignalEffect ==
  [][Signal =>
       /\ state = "running" =>
            /\ pendingActions' =
                 Append(pendingActions, [id |-> actionIdCounter + 1, type |-> "shutdown"])
            /\ state' = "draining"
            /\ activeSessions' = activeSessions
       /\ state \in {"draining", "executing"} =>
            UNCHANGED <<pendingActions, activeSessions, state>>]_vars

C22_Witness ==
  /\ state = "draining"
  /\ \E i \in 1..Len(pendingActions) :
       /\ pendingActions[i].type = "shutdown"
       /\ queuedAt[pendingActions[i].id].state = "running"
       /\ queuedAt[pendingActions[i].id].active # {}

\* An action other than cleanup has been queued (it is pending or was started).
NonCleanupSeen ==
  \/ \E i \in 1..Len(pendingActions) : pendingActions[i].type # "cleanup"
  \/ \E i \in 1..Len(started) : started[i].type # "cleanup"

RunningAgain ==
  /\ state = "running"
  /\ pendingActions = <<>>
  /\ \A s \in SessionIds : registerSession(Coord, s).thrown = "none"

\* C23: while only cleanup actions are queued, a drain that has completed (no
\* active session left, state draining or executing) leads to state running
\* with an empty pending list, where registerSession is accepted; in
\* particular draining or executing with an empty pending list does not last.
C23_BackToRunning ==
  (/\ state \in {"draining", "executing"}
   /\ activeSessions = {} \/ pendingActions = <<>>
   /\ ~NonCleanupSeen)
    ~> (RunningAgain \/ NonCleanupSeen)

\* A drain of cleanup actions has completed and the coordinator is back.
C23_Witness ==
  /\ RunningAgain
  /\ ~NonCleanupSeen
  /\ Len(started) > 0
  /\ completed # {}

-----------------------------------------------------------------------------
\* Claims about follow-up messages and the generation run.

\* C24: a message that arrives in a channel while the generation run of a
\* session triggered in that channel is in progress is appended to that
\* session's pendingMessages and sets its shouldCheckpoint; no session is
\* created for it.
C24_FollowUpAttached ==
  [][\A ch \in ChannelIds :
       HandleIncomingMessage(ch) =>
         \A o \in ObjIds :
           (wmObj[o].channelId = ch /\ runs[o].pc = "running") =>
             /\ wmObj'[o].pendingMessages = wmObj[o].pendingMessages + 1
             /\ wmObj'[o].shouldCheckpoint
             /\ Created' = Created]_vars

\* C25: runner.abort() is called only by the callback of a tool_result event,
\* with shouldCheckpoint set, at a moment when no tool is running (no tool_use
\* without its tool_result), and at most once in a run.
C25_AbortAtToolBoundary ==
  [][\A o \in ObjIds, t \in ClaudeEventType :
       (HandlerResume(o, t) /\ runs'[o].aborts > runs[o].aborts) =>
         /\ t = "tool_result"
         /\ wmObj[o].shouldCheckpoint
         /\ ~runner[o].tool
         /\ runs'[o].aborts = 1]_vars

\* C26: when the 5 seconds of abort are over and the subprocess has not exited,
\* SIGKILL is sent to it.
C26_ForcedKill ==
  [][\A o \in ObjIds :
       (GraceTimeout(o) /\ runner[o].aborted /\ runner[o].proc = "alive") =>
         runner'[o].sigkill]_vars

\* C27: the step of a checkpoint cycle that clears pendingMessages has put
\* every message it removes into the continuation prompt of that cycle, the
\* messages that arrived during the awaits of the cycle included, and leaves
\* pendingMessages empty and shouldCheckpoint false.
C27_ClearedInPrompt ==
  [][\A o \in ObjIds :
       (runs[o].pc \in {"continuation", "checkpointing", "prompting"}
          /\ runs'[o].pc = "resuming") =>
         /\ pendingIds(wmObj[o], runs[o]) \subseteq runs'[o].prompt
         /\ wmObj'[o].pendingMessages = 0
         /\ ~wmObj'[o].shouldCheckpoint]_vars

\* A cycle with a checkpoint commit has cleared two messages.
C27_Witness ==
  \E o \in ObjIds :
    /\ runs[o].pc = "resuming"
    /\ Cardinality(runs[o].prompt) >= 2
    /\ checkpoints[o] # <<>>
    /\ wmObj[o].pendingMessages = 0

-----------------------------------------------------------------------------
\* Claims about the end of a session, checked under TerminalSpec.

\* C28: when a session reaches its outcome (merged, merge failed, no changes)
\* no follow-up message is left in pendingMessages: every message appended
\* while the session was active has been cleared into a continuation prompt.
C28_FollowUpsDelivered ==
  [][\A o \in ObjIds :
       (Finalize(o) /\ runs'[o].outcome \in {"merged", "mergeFailed", "noChanges"}) =>
         pendingIds(wmObj[o], runs[o]) = {}]_vars

\* C29: the end of a session starts at most one conflict repair run and calls
\* mergeToMain at most twice; a session whose merge failed is completed with
\* the coordinator as failed, without a restart request, and its branch
\* is still there.
C29_OneRepair ==
  \A o \in ObjIds :
    /\ runs[o].repairs <= 1
    /\ runs[o].merges <= 2
    /\ runs[o].outcome = "mergeFailed" =>
         /\ runs[o].coord = "failed"
         /\ ~runs[o].restart
         /\ wmObj[o].branchName \in branches

\* A repair and a retry that failed as well, the session cleaned up.
C29_Witness ==
  \E o \in ObjIds :
    /\ runs[o].pc = "finished"
    /\ runs[o].outcome = "mergeFailed"
    /\ runs[o].repairs = 1
    /\ runs[o].merges = 2

\* C30: a session whose generator run failed (exit code not 0 or spawn error,
\* the run not aborted for a checkpoint) ends marked failed, in its record or
\* with the coordinator, and with its workspace directory in place.
C30_FailedKeepsWorkspace ==
  \A o \in ObjIds :
    (runs[o].pc = "finished" /\ runs[o].outcome = "failed") =>
      /\ wmObj[o].status = "failed" \/ runs[o].coord = "failed"
      /\ worktreePath(wmObj[o].id) \in dirs

\* ---------------------------------------------------------------- C31
\* The sessions whose flow stands inside a mergeToMain call (the first call or
\* the retry): its git commands run in the main repository.
InMergeToMain == {s \in SessionIds : pc[s] \in {"merging", "retrying"}}

\* C31: at most one mergeToMain operation is in progress against the shared
\* main repository at any time, whatever the number of sessions running
\* concurrently.
C31_OneMergeAtATime == Cardinality(InMergeToMain) <= 1

\* ---------------------------------------------------------------- C32
\* The sessions whose flow awaits a git command that runs in (or on) the
\* worktree of the session it created: commitChanges (final or checkpoint),
\* WorktreeManager.completeSession, abandonSession.
FlowGitPending == {s \in SessionIds :
                     pc[s] \in {"committing", "checkpoint", "cleaning", "abandoning"}}

\* C32: no two git operations run concurrently on the workspace of one
\* session: the worktree removal of a public Arbiter.completeSession call is
\* never pending while a git command of the session's flow is.
C32_SequentialGit == apiCompleting \cap FlowGitPending = {}

\* ---------------------------------------------------------------- C33
\* The message an addMessage call adds, and the age of the message that has
\* been in a buffer longest (the first of its list) at the current clock reading.
AddedMessage(timestamp) == [id |-> aggCounter + 1, timestamp |-> timestamp]
OldestAge(messages) == now - messages[1].timestamp

\* C33: addMessage returns shouldAggregate = true exactly when the oldest
\* message of the channel's buffer, the message just added included, is at
\* least the aggregation window old; it then returns all buffered messages of
\* the channel in arrival order and leaves the buffer empty, and otherwise
\* every message stays buffered; forceAggregate returns and clears the
\* channel's buffer; neither changes the buffer of another channel.
C33_Aggregation ==
  /\ [][\A ch \in AggChannelIds, ts \in Timestamps : AddMessage(ch, ts) =>
          LET all == Append(channelBuffers[ch], AddedMessage(ts)) IN
          /\ aggregated'.shouldAggregate <=> OldestAge(all) >= aggregationWindow
          /\ aggregated'.shouldAggregate =>
               aggregated'.messages = all /\ channelBuffers'[ch] = <<>>
          /\ ~aggregated'.shouldAggregate => channelBuffers'[ch] = all
          /\ \A other \in AggChannelIds \ {ch} : channelBuffers'[other] = channelBuffers[other]]_vars
  /\ [][\A ch \in AggChannelIds : ForceAggregate(ch) =>
          /\ aggregated'.messages = channelBuffers[ch]
          /\ channelBuffers'[ch] = <<>>
          /\ \A other \in AggChannelIds \ {ch} : channelBuffers'[other] = channelBuffers[other]]_vars
  /\ [](\A ch \in AggChannelIds : \A i, j \in 1..Len(channelBuffers[ch]) :
          i < j => channelBuffers[ch][i].id < channelBuffers[ch][j].id)

\* An addMessage call found the first of two buffered messages old enough and
\* returned both, while the other channel's buffer holds a message.
C33_Witness ==
  /\ aggregated.op = "addMessage" /\ aggregated.shouldAggregate
  /\ Len(aggregated.messages) = 2
  /\ \E ch \in AggChannelIds : Len(channelBuffers[ch]) = 1

\* ---------------------------------------------------------------- C34
\* getSessionMessages(s) returns message m, and m carries the session id s.
InQueue(m) == \E i \in 1..Len(queue) : queue[i] = m
Returned(m, s) == \E i \in 1..Len(sessionMessages[s]) : sessionMessages[s][i] = m
Tagged(m, s) == Returned(m, s) /\ qm[m].sessionId = s

\* C34: after associateWithSession(m, s) for a message in the queue, the
\* message carries the session id s and is returned by getSessionMessages(s)
\* in every later state (processed, evicted or removed by cleanup included);
\* for a message that is not in the queue the call changes nothing.
C34_AssociationKept ==
  /\ [][\A m \in MsgIds, s \in ListSessionIds :
          AssociateWithSession(m, s) => IF InQueue(m) THEN Tagged(m, s)'
                                        ELSE UNCHANGED <<qm, sessionMessages>>]_vars
  /\ [][\A m \in MsgIds, s \in ListSessionIds : Tagged(m, s) => Tagged(m, s)']_vars

\* ---------------------------------------------------------------- C40
\* C40: after any sequence of enqueue calls (with a sessionId option) and
\* associateWithSession calls, every entry of the list of a session s is a
\* message whose sessionId is s, and no message occurs twice in the list.
C40_ListsConsistent ==
  \A s \in ListSessionIds :
    LET list == sessionMessages[s] IN
    /\ \A i \in 1..Len(list) : qm[list[i]].sessionId = s
    /\ \A i, j \in 1..Len(list) : list[i] = list[j] => i = j

\* ---------------------------------------------------------------- C35
\* A restart that was queued while sessions were active is waiting; a restart
\* has begun executing (the process exits in the first restart that begins).
RestartWaiting ==
  \E i \in 1..Len(pendingActions) :
    pendingActions[i].type = "restart" /\ queuedAt[pendingActions[i].id].active # {}
RestartBegun == \E i \in 1..Len(started) : started[i].type = "restart"

\* C35: every session registered with the coordinator is eventually removed
\* from the active set, on every path of its flow (merged, merge failed, no
\* changes, generator failure, thrown error), when every generator run and git
\* operation terminates and the follow-up messages are finitely many; so a
\* restart queued while sessions are active is eventually executed.
C35_SessionsComplete ==
  /\ \A s \in SessionIds : (s \in activeSessions) ~> (s \notin activeSessions)
  /\ RestartWaiting ~> RestartBegun

\* Both sessions were registered and have been completed, the second through
\* the catch block, and the restart the first one queued while the second was
\* active has begun.
C35_Witness ==
  /\ completed = SessionIds
  /\ \E s \in SessionIds : pc[s] \in {"abandoning", "done"} /\ sessions[s] # "completed"
  /\ \E a \in StartedIds : queuedAt[a].active # {}

\* ---------------------------------------------------------------- C36
\* C36: a SIGINT or SIGTERM received while sessions are active does not end
\* the process before those sessions have completed: once a signal was
\* received (no session is registered after it), the process has exited only
\* with an empty active set.
C36_SignalWaitsForSessions == (stopping /\ exited) => activeSessions = {}

\* ---------------------------------------------------------------- C37
\* A restart or shutdown action has begun executing (its executeAction call
\* is in its one-second pause, or the process has exited in it).
TerminatingBegun == \E a \in inflight : a.type \in {"restart", "shutdown"}

\* C37: once a restart or shutdown action has begun executing, the state never
\* becomes running again and no registerSession call succeeds before the
\* process exits, also when further actions are queued during the pause; so
\* the process never exits through such an action with a non-empty active set.
C37_NoReturnToRunning ==
  /\ [](TerminatingBegun => state # "running")
  /\ [][\A s \in SessionIds :
          (TerminatingBegun /\ RegisterSession(s)) => thrown' = NotAccepting]_vars
  /\ [](exited => activeSessions = {})

\* ---------------------------------------------------------------- C38
\* The sessions of a channel that are in work.
InWork(ch) ==
  {o \in ObjIds : /\ wmObj[o].channelId = ch
                  /\ wmObj[o].status \in {"creating", "active", "committing", "rebasing"}}

\* C38: at any time a channel has at most one session with status creating,
\* active, committing or rebasing: a message arriving in a channel that has
\* such a session goes to that session and starts no second one.
C38_OneSessionPerChannel == \A ch \in ChannelIds : Cardinality(InWork(ch)) <= 1

\* ---------------------------------------------------------------- C39
\* C39: once a processor is set (stop is not called), every queued item that
\* is not evicted eventually reaches status completed or failed, whether it
\* was enqueued before or after setProcessor, when every processor call
\* returns and finitely many items are enqueued.
C39_QueuedProcessed ==
  \A m \in MsgIds :
    (processor /\ InQueue(m) /\ qm[m].status = "queued")
      ~> (~InQueue(m) \/ qm[m].status \in {"completed", "failed"})

====
